---- MODULE Spec2Model ----
(***************************************************************************)
(* Model of easy_bootloader: the bootloader engine (v2.0, STM32F4 example  *)
(* copy of easy_bootloader.c), the application command engine              *)
(* (easy_bootloader_app.c) and the flash / UART porting layer they call.   *)
(*                                                                         *)
(* Bytes are naturals 0..255.  A 32-bit data word (flag, version, date, a   *)
(* vector-table entry) is the pair <<high half, low half>> of its 16-bit   *)
(* halves: the values reach 0xFFFFFFFF, beyond the checker's integers.     *)
(* Addresses stay below 2^31 and are plain naturals.  Byte sequences are   *)
(* 1-based: C index i is index i+1 here.                                   *)
(***************************************************************************)
EXTENDS Naturals, Integers, Sequences, FiniteSets, TLC

VARIABLES
    mode,       \* "reset" (before easy_bootloader_init), "boot" (bootloader polls), "app" (application polls), "codec"/"init" harnesses
    ctx,        \* g_boot_ctx, the bootloader context
    actx,       \* g_app_ctx, the application engine context
    flashApp,   \* bytes of the application region, offset 0 at BOOT_APP_START_ADDR
    flashFlag,  \* the 12 bytes at the start of the flag region
    uartQueue,  \* the ring buffer the receive interrupt fills and uart_read drains
    wire,       \* bytes the host has sent that the receive interrupt has not yet seen
    trace,      \* port calls made by the most recent handler call, in order
    host,       \* the host side / the scenario being driven
    ghost       \* history kept for stating properties

vars == <<mode, ctx, actx, flashApp, flashFlag, uartQueue, wire, trace, host, ghost>>

(***************************************************************************)
(* Bounds of the model.  The code's sizes are scaled down; the structure   *)
(* (cache = one maximum frame, region = whole words) is kept.              *)
(***************************************************************************)
\* BOOT_PACKET_MAX_SIZE, 1013 in boot_config.h, scaled.
BOOT_PACKET_MAX_SIZE == 27
\* Number of 4-byte words of the application region (BOOT_APP_MAX_SIZE / 4, scaled).
AppWords == 3
\* Longest garbage run placed between two frames.
MaxGarbage == 6

(***************************************************************************)
(* Program constants.                                                      *)
(***************************************************************************)
BOOT_FRAME_HEADER0 == 85
BOOT_FRAME_HEADER1 == 170
BOOT_FRAME_TAIL0 == 85
BOOT_FRAME_TAIL1 == 85
BOOT_FRAME_FIXED_SIZE == 11
BOOT_FINISH_FRAME_BYTE0 == 255
BOOT_FINISH_FRAME_BYTE1 == 253
BOOT_FINISH_FRAME_LEN == 14
BOOT_PAYLOAD_MAX_SIZE == BOOT_PACKET_MAX_SIZE - BOOT_FRAME_FIXED_SIZE
g_boot_ack == <<85, 170, 255, 254, 85, 85>>

\* 0x08010000
BOOT_APP_START_ADDR == 134283264
BOOT_APP_MAX_SIZE == 4 * AppWords
BOOT_APP_END_ADDR == BOOT_APP_START_ADDR + BOOT_APP_MAX_SIZE - 1
\* The 32-bit word of a natural below 2^31.
W32(n) == <<n \div 65536, n % 65536>>
\* Unsigned comparison of two words.
WLe(a, b) == a[1] < b[1] \/ (a[1] = b[1] /\ a[2] <= b[2])
WLt(a, b) == a[1] < b[1] \/ (a[1] = b[1] /\ a[2] < b[2])

BOOT_FLAG_BOOTLOADER == W32(1)
BOOT_FLAG_APP == W32(2)
\* 0xFFFFFFFF
BOOT_FLAG_ERASED == <<65535, 65535>>
\* 0x20000000 .. 0x20030000
BOOT_SRAM_START_ADDR == 536870912
BOOT_SRAM_END_ADDR == 537067520
\* 0x10000000 .. 0x10010000
BOOT_CCM_START_ADDR == 268435456
BOOT_CCM_END_ADDR == 268500992
\* 0x080E0000, and the three words of the flag region
BOOT_FLAG_REGION_ADDR == 135135232
BOOT_FLAG_ADDR == BOOT_FLAG_REGION_ADDR + 0
BOOT_VERSION_ADDR == BOOT_FLAG_REGION_ADDR + 4
BOOT_DATE_ADDR == BOOT_FLAG_REGION_ADDR + 8
\* The part of the flag region the model keeps: the three words.
FlagBytes == 4 * 3
\* The regions of the STM32F407 layout at their shipped size: 0x000D0000
\* bytes of application, 0x00020000 bytes of flag region.
STM32_BOOT_APP_MAX_SIZE == 851968
BOOT_FLAG_REGION_SIZE == 131072

(***************************************************************************)
(* Byte and word helpers.                                                  *)
(***************************************************************************)
Min(a, b) == IF a < b THEN a ELSE b

Rep(b, n) == [i \in 1..n |-> b]

Drop(s, n) == IF n >= Len(s) THEN <<>> ELSE SubSeq(s, n + 1, Len(s))

Take(s, n) == IF n >= Len(s) THEN s ELSE SubSeq(s, 1, n)

RECURSIVE SumBytes(_, _, _)
\* Sum of s[lo..hi] (1-based, inclusive); 0 when the range is empty.
SumBytes(s, lo, hi) == IF lo > hi THEN 0 ELSE s[lo] + SumBytes(s, lo + 1, hi)

\* Big-endian encodings used on the wire.
BE2(v) == <<(v \div 256) % 256, v % 256>>
BE3(v) == <<(v \div 65536) % 256, (v \div 256) % 256, v % 256>>
BE4(w) == <<w[1] \div 256, w[1] % 256, w[2] \div 256, w[2] % 256>>
\* Little-endian word <-> bytes, as the flash port stores words.
LE4(w) == <<w[2] % 256, w[2] \div 256, w[1] % 256, w[1] \div 256>>
WordLE(s, i) == <<s[i + 2] + 256 * s[i + 3], s[i] + 256 * s[i + 1]>>
WordBE(s, i) == <<256 * s[i] + s[i + 1], 256 * s[i + 2] + s[i + 3]>>

\* TRUE when s holds the header pair 55 AA at two adjacent positions.
HasHeaderPair(s) ==
    \E i \in 1..(Len(s) - 1) : s[i] = BOOT_FRAME_HEADER0 /\ s[i + 1] = BOOT_FRAME_HEADER1

(***************************************************************************)
(* Frame codec of the bootloader.                                          *)
(***************************************************************************)
\* A consume that empties the cache instead of moving the rest to the front.
consume_cache_drop_all(cache, count) == SubSeq(cache, 1, 0)

\* A consume that drops one byte where two were to go.
consume_cache_one_for_two(cache, count) ==
    IF count = 2 THEN SubSeq(cache, 2, Len(cache))
    ELSE IF count >= Len(cache) THEN <<>> ELSE SubSeq(cache, count + 1, Len(cache))

\* A consume that leaves the two tail bytes of an extracted frame in the cache.
consume_cache_leaves_tail(cache, count) ==
    IF count >= BOOT_FRAME_FIXED_SIZE THEN SubSeq(cache, count - 1, Len(cache))
    ELSE IF count >= Len(cache) THEN <<>> ELSE SubSeq(cache, count + 1, Len(cache))

bootloader_consume_cache(cache, count) ==
    IF count >= Len(cache) THEN <<>> ELSE SubSeq(cache, count + 1, Len(cache))

\* The sum the spec describes: from the remaining field (C index 2).
calc_crc_from_remaining(cache, checksum_pos) == SumBytes(cache, 3, checksum_pos) % 65536

\* for (idx = 5U; idx < checksum_pos; idx++) calc_crc += rx_cache[idx];  (uint16_t)
calc_crc(cache, checksum_pos) == SumBytes(cache, 6, checksum_pos) % 65536

\* Bytes dropped when a matched header turns out not to start a frame.
ResyncSkip == 2

\* One iteration of the while loop of bootloader_try_extract_frame.
\* act: "exit" (loop condition false), "wait" (return false, frame incomplete),
\*      "skip" (consume n bytes and continue), "frame" (return true).
ExtractStep(cache) ==
    IF Len(cache) < BOOT_FRAME_FIXED_SIZE
    THEN [act |-> "exit", n |-> 0, cache |-> cache, remaining |-> 0, payload |-> <<>>]
    ELSE IF cache[1] # BOOT_FRAME_HEADER0 \/ cache[2] # BOOT_FRAME_HEADER1
    THEN [act |-> "skip", n |-> 1, cache |-> bootloader_consume_cache(cache, 1),
          remaining |-> 0, payload |-> <<>>]
    ELSE LET remain == cache[3] * 65536 + cache[4] * 256 + cache[5]
             packet_len == cache[6] * 256 + cache[7]
             frame_size == BOOT_FRAME_FIXED_SIZE + packet_len
             checksum_pos == 7 + packet_len
             tail_pos == checksum_pos + 2
             received_crc == cache[checksum_pos + 1] * 256 + cache[checksum_pos + 2]
             skip2 == [act |-> "skip", n |-> ResyncSkip,
                       cache |-> bootloader_consume_cache(cache, ResyncSkip),
                       remaining |-> 0, payload |-> <<>>]
         IN  IF packet_len > BOOT_PAYLOAD_MAX_SIZE THEN skip2
             ELSE IF Len(cache) < frame_size
             THEN [act |-> "wait", n |-> 0, cache |-> cache, remaining |-> 0, payload |-> <<>>]
             ELSE IF tail_pos + 1 >= frame_size THEN skip2
             ELSE IF \/ calc_crc(cache, checksum_pos) # received_crc
                     \/ cache[tail_pos + 1] # BOOT_FRAME_TAIL0
                     \/ cache[tail_pos + 2] # BOOT_FRAME_TAIL1
             THEN skip2
             ELSE [act |-> "frame", n |-> frame_size,
                   cache |-> bootloader_consume_cache(cache, frame_size),
                   remaining |-> remain,
                   payload |-> SubSeq(cache, 8, 7 + packet_len)]

RECURSIVE TryExtractFrom(_, _)
\* The loop, s being the outcome of the iteration just made.
TryExtractFrom(s, log) ==
    IF s.act = "skip" THEN TryExtractFrom(ExtractStep(s.cache), Append(log, s.n))
    ELSE [found |-> s.act = "frame", cache |-> s.cache, remaining |-> s.remaining,
          payload |-> s.payload, log |-> log, waiting |-> s.act = "wait"]

\* bootloader_try_extract_frame: found, the cache left, the outputs, and (for
\* stating properties) the sizes of the discards made on the way.
bootloader_try_extract_frame(cache) == TryExtractFrom(ExtractStep(cache), <<>>)

\* The wire image of a DataFrame the extractor accepts, with an explicit
\* checksum field and tail so that damaged frames can be built too.
RawDataFrame(remaining, payload, cks, tail) ==
    <<BOOT_FRAME_HEADER0, BOOT_FRAME_HEADER1>> \o BE3(remaining) \o BE2(Len(payload))
        \o payload \o BE2(cks) \o tail

\* The checksum over length field and payload (what the extractor verifies).
SumLenPayload(payload) == SumBytes(BE2(Len(payload)) \o payload, 1, 2 + Len(payload)) % 65536

\* The checksum over remaining, length and payload (what the spec describes).
SumRemLenPayload(remaining, payload) ==
    SumBytes(BE3(remaining) \o BE2(Len(payload)) \o payload, 1, 5 + Len(payload)) % 65536

GoodTail == <<BOOT_FRAME_TAIL0, BOOT_FRAME_TAIL1>>

EncodeDataFrame(remaining, payload) ==
    RawDataFrame(remaining, payload, SumLenPayload(payload), GoodTail)

(***************************************************************************)
(* The machine a handler runs on: the context, both flash regions, the     *)
(* ring buffer, the port calls made so far (tr), the number of flash       *)
(* operations made so far in this call (n), the one that fails (failAt,    *)
(* 0: none), the status of the last call and whether system reset was      *)
(* issued (halted) or control was handed to the application (jumped).      *)
(***************************************************************************)
Machine(c, a, fa, ff, q, failAt) ==
    [ctx |-> c, actx |-> a, app |-> fa, flag |-> ff, queue |-> q, tr |-> <<>>, n |-> 0,
     failAt |-> failAt, status |-> "OK", halted |-> FALSE, jumped |-> FALSE]

\* A port call or handler milestone, with the session state when it was made.
Ev(m, op, addr, data, ok) ==
    [op |-> op, addr |-> addr, data |-> data, ok |-> ok,
     state |-> m.ctx.state, active |-> m.ctx.download_active,
     carry |-> Len(m.ctx.stream_cache), cursor |-> m.ctx.current_addr]

Emit(m, op, addr, data, ok) == [m EXCEPT !.tr = Append(@, Ev(m, op, addr, data, ok))]

InApp(addr) == addr >= BOOT_APP_START_ADDR /\ addr + 3 <= BOOT_APP_END_ADDR
InFlag(addr) == addr >= BOOT_FLAG_REGION_ADDR /\ addr + 3 < BOOT_FLAG_REGION_ADDR + FlagBytes

\* bytes with the 4 bytes of w stored at offset off (0-based).
Store4(bytes, off, w) ==
    [i \in 1..Len(bytes) |-> IF i > off /\ i <= off + 4 THEN w[i - off] ELSE bytes[i]]

\* HAL_FLASH_Program of one word: the word reads back as written.
ProgramWord(m, addr, w) ==
    IF InApp(addr) THEN [m EXCEPT !.app = Store4(@, addr - BOOT_APP_START_ADDR, w)]
    ELSE IF InFlag(addr) THEN [m EXCEPT !.flag = Store4(@, addr - BOOT_FLAG_REGION_ADDR, w)]
    ELSE m

RECURSIVE ProgramWords(_, _, _)
\* The word loop of boot_port_flash_write: stops at the first word that fails.
ProgramWords(m, addr, data) ==
    IF Len(data) = 0 THEN [m EXCEPT !.status = "OK"]
    ELSE IF m.n + 1 = m.failAt THEN [m EXCEPT !.n = @ + 1, !.status = "ERROR"]
    ELSE ProgramWords([ProgramWord(m, addr, Take(data, 4)) EXCEPT !.n = @ + 1],
                      addr + 4, Drop(data, 4))

\* The call's entry in the log and its status: m made the call, r is the
\* machine after the word loop.
flash_write_return(m, r, addr, data) ==
    [r EXCEPT !.tr = Append(@, Ev(m, "write", addr, data, r.status = "OK"))]

boot_port_flash_write(m, addr, data) ==
    flash_write_return(m, ProgramWords(m, addr, data), addr, data)

\* The sectors of the region read back erased.
flash_erase_done(e, addr) ==
    IF addr = BOOT_APP_START_ADDR THEN [e EXCEPT !.app = Rep(255, BOOT_APP_MAX_SIZE)]
    ELSE [e EXCEPT !.flag = Rep(255, FlagBytes)]

\* Erase of a whole region; a failed erase leaves the region as it was.
boot_port_flash_erase(m, addr) ==
    IF m.n + 1 = m.failAt
    THEN [Emit(m, "erase", addr, <<>>, FALSE) EXCEPT !.n = @ + 1, !.status = "ERROR"]
    ELSE flash_erase_done([Emit(m, "erase", addr, <<>>, TRUE)
                               EXCEPT !.n = @ + 1, !.status = "OK"], addr)

boot_port_uart_write(m, data) == Emit(m, "uart", 0, data, TRUE)

boot_port_system_reset(m) == [Emit(m, "reset", 0, <<>>, TRUE) EXCEPT !.halted = TRUE]

boot_port_jump_to_app(m) == [Emit(m, "jump", BOOT_APP_START_ADDR, <<>>, TRUE) EXCEPT !.jumped = TRUE]

(***************************************************************************)
(* Bootloader engine.  A function of several statements is a chain of      *)
(* operators, one per stretch of statements between two calls, each        *)
(* taking the machine the previous stretch left.                           *)
(***************************************************************************)
bootloader_reset_context(c) ==
    [rx_cache |-> <<>>, current_addr |-> BOOT_APP_START_ADDR, stream_cache |-> <<>>,
     boot_flag |-> W32(0), app_version |-> W32(0), update_date |-> W32(0),
     state |-> "IDLE", download_active |-> FALSE, initialized |-> c.initialized]

\* The zero-initialised static context before easy_bootloader_init.
ZeroCtx ==
    [rx_cache |-> <<>>, current_addr |-> 0, stream_cache |-> <<>>,
     boot_flag |-> W32(0), app_version |-> W32(0), update_date |-> W32(0),
     state |-> "IDLE", download_active |-> FALSE, initialized |-> FALSE]

bootloader_read_flag_region(m) ==
    [m EXCEPT !.ctx.boot_flag = WordLE(m.flag, 1),
              !.ctx.app_version = WordLE(m.flag, 5),
              !.ctx.update_date = WordLE(m.flag, 9)]

\* A check that leaves out the Thumb-bit test of the reset vector.
check_app_valid_arm_no_thumb(app_word0, app_word1) ==
    LET in_sram == /\ WLe(W32(BOOT_SRAM_START_ADDR), app_word0)
                   /\ WLe(app_word0, W32(BOOT_SRAM_END_ADDR))
        stack_valid == IF in_sram THEN TRUE
                       ELSE /\ WLe(W32(BOOT_CCM_START_ADDR), app_word0)
                            /\ WLe(app_word0, W32(BOOT_CCM_END_ADDR))
    IN  IF ~stack_valid THEN FALSE
        ELSE IF \/ WLt(app_word1, W32(BOOT_APP_START_ADDR))
                \/ WLt(W32(BOOT_APP_END_ADDR), app_word1) THEN FALSE
        ELSE IF app_word0 = BOOT_FLAG_ERASED \/ app_word1 = BOOT_FLAG_ERASED THEN FALSE
        ELSE TRUE

\* BOOT_ARCH_ARM_CORTEX_M variant, BOOT_HAS_CCM = 1.
check_app_valid_arm(app_word0, app_word1) ==
    LET in_sram == /\ WLe(W32(BOOT_SRAM_START_ADDR), app_word0)
                   /\ WLe(app_word0, W32(BOOT_SRAM_END_ADDR))
        stack_valid == IF in_sram THEN TRUE
                       ELSE /\ WLe(W32(BOOT_CCM_START_ADDR), app_word0)
                            /\ WLe(app_word0, W32(BOOT_CCM_END_ADDR))
    IN  IF ~stack_valid THEN FALSE
        ELSE IF \/ WLt(app_word1, W32(BOOT_APP_START_ADDR))
                \/ WLt(W32(BOOT_APP_END_ADDR), app_word1) THEN FALSE
        ELSE IF app_word1[2] % 2 = 0 THEN FALSE
        ELSE IF app_word0 = BOOT_FLAG_ERASED \/ app_word1 = BOOT_FLAG_ERASED THEN FALSE
        ELSE TRUE

bootloader_check_app_valid(m) == check_app_valid_arm(WordLE(m.app, 1), WordLE(m.app, 5))

\* A decision that jumps for every flag except BOOTLOADER.
should_jump_ignoring_flag(flag, valid) == flag # BOOT_FLAG_BOOTLOADER /\ valid

\* A decision that takes the erased flag for APP.
should_jump_erased_as_app(flag, valid) ==
    valid /\ flag \in {BOOT_FLAG_APP, BOOT_FLAG_ERASED}

\* The decision of easy_bootloader_init once the validity check has run.
should_jump(flag, valid) ==
    IF valid
    THEN IF flag = BOOT_FLAG_APP THEN TRUE
         ELSE IF flag = BOOT_FLAG_ERASED THEN FALSE
         ELSE FALSE
    ELSE FALSE

\* Lines 111-119: the jump, which does not return, or initialized = true.
init_jump_or_stay(m, jump) ==
    IF jump THEN boot_port_jump_to_app(m) ELSE [m EXCEPT !.ctx.initialized = TRUE]

\* Lines 92-108: the validity check has returned valid.
init_checked(m, valid) ==
    init_jump_or_stay(Emit(m, "check", BOOT_APP_START_ADDR, <<>>, valid),
                      should_jump(m.ctx.boot_flag, valid))

\* An init that trusts the flag and makes no validity check.
init_flag_read_unchecked(m) ==
    init_jump_or_stay(m, m.ctx.boot_flag = BOOT_FLAG_APP)

\* Lines 86-109: the branch on the flag read.
init_flag_read(m) ==
    IF m.ctx.boot_flag = BOOT_FLAG_BOOTLOADER THEN init_jump_or_stay(m, FALSE)
    ELSE init_checked(m, bootloader_check_app_valid(m))

easy_bootloader_init(m0) ==
    init_flag_read(bootloader_read_flag_region(
        [m0 EXCEPT !.ctx = bootloader_reset_context(m0.ctx)]))

\* Layout of the CH32V307 build (BOOT_ARCH_RISCV): application region and
\* the value its flash reads after an erase, 0xE339E339.
CH32_BOOT_APP_START_ADDR == 24576
CH32_BOOT_APP_MAX_SIZE == 235520
\* 0x0003F800 and 2 KB: its flag region.
CH32_BOOT_FLAG_REGION_ADDR == 260096
CH32_BOOT_FLAG_REGION_SIZE == 2048
CH32_BOOT_APP_END_ADDR == CH32_BOOT_APP_START_ADDR + CH32_BOOT_APP_MAX_SIZE - 1
CH32_BOOT_FLAG_ERASED == <<58169, 58169>>

\* A check that leaves out the test against the erased value.
check_app_valid_riscv_no_erased_test(app_word0, app_word1) ==
    IF \/ WLt(app_word1, W32(CH32_BOOT_APP_START_ADDR))
       \/ WLt(W32(CH32_BOOT_APP_END_ADDR), app_word1) THEN FALSE
    ELSE IF app_word1[2] % 2 # 0 THEN FALSE
    ELSE TRUE

\* BOOT_ARCH_RISCV variant: app_word0 is the first word, app_word1 the entry.
check_app_valid_riscv(app_word0, app_word1) ==
    IF \/ WLt(app_word1, W32(CH32_BOOT_APP_START_ADDR))
       \/ WLt(W32(CH32_BOOT_APP_END_ADDR), app_word1) THEN FALSE
    ELSE IF app_word1[2] % 2 # 0 THEN FALSE
    ELSE IF \/ app_word0 = CH32_BOOT_FLAG_ERASED
            \/ app_word1 = CH32_BOOT_FLAG_ERASED THEN FALSE
    ELSE TRUE

\* The branch on the flag read, in the BOOT_ARCH_RISCV build.
init_flag_read_riscv(m) ==
    IF m.ctx.boot_flag = BOOT_FLAG_BOOTLOADER THEN init_jump_or_stay(m, FALSE)
    ELSE init_checked(m, check_app_valid_riscv(WordLE(m.app, 1), WordLE(m.app, 5)))

\* easy_bootloader_init of the BOOT_ARCH_RISCV build.
easy_bootloader_init_riscv(m0) ==
    init_flag_read_riscv(bootloader_read_flag_region(
        [m0 EXCEPT !.ctx = bootloader_reset_context(m0.ctx)]))

\* A poll that stores the bytes read at the start of the cache, not at rx_cache_len.
poll_uart_from_start(m) ==
    LET space == BOOT_PACKET_MAX_SIZE - Len(m.ctx.rx_cache)
        received == Min(space, Len(m.queue))
    IN  IF space = 0 \/ received = 0 THEN m
        ELSE [m EXCEPT !.ctx.rx_cache = Take(m.queue, received) \o Drop(@, received),
                       !.queue = Drop(@, received)]

\* A poll that takes every byte of the ring buffer, whatever space is left.
poll_uart_reads_all(m) ==
    [m EXCEPT !.ctx.rx_cache = @ \o m.queue, !.queue = <<>>]

\* A poll that loses the bytes of the ring buffer that did not fit the cache.
poll_uart_drops_unread(m) ==
    LET space == BOOT_PACKET_MAX_SIZE - Len(m.ctx.rx_cache)
        received == Min(space, Len(m.queue))
    IN  IF space = 0 THEN m
        ELSE [m EXCEPT !.ctx.rx_cache = @ \o Take(m.queue, received),
                       !.queue = <<>>]

bootloader_poll_uart(m) ==
    LET space == BOOT_PACKET_MAX_SIZE - Len(m.ctx.rx_cache)
        received == Min(space, Len(m.queue))
    IN  IF space = 0 THEN m
        ELSE [m EXCEPT !.ctx.rx_cache = @ \o Take(m.queue, received),
                       !.queue = Drop(@, received)]

RoundUp4(n) == ((n + 3) \div 4) * 4
RoundDown4(n) == (n \div 4) * 4

\* Lines 429-439: the erase has returned.
prepare_erased(e) ==
    IF e.status # "OK" THEN e
    ELSE [e EXCEPT !.ctx.current_addr = BOOT_APP_START_ADDR,
                   !.ctx.stream_cache = <<>>,
                   !.ctx.download_active = TRUE]

\* A prepare_download that erases whether or not a download is active.
prepare_download_always(m) == prepare_erased(boot_port_flash_erase(m, BOOT_APP_START_ADDR))

bootloader_prepare_download(m) ==
    IF m.ctx.download_active THEN [m EXCEPT !.status = "OK"]
    ELSE prepare_erased(boot_port_flash_erase(m, BOOT_APP_START_ADDR))

\* Lines 480-484: what is left of data after offset becomes the carry.
stream_keep_rest(m, data, offset) ==
    IF Len(data) - offset > 0
    THEN [m EXCEPT !.ctx.stream_cache = Drop(data, offset), !.status = "OK"]
    ELSE [m EXCEPT !.status = "OK"]

\* A writer that advances the cursor by all the bytes left, not by the part written.
stream_aligned_written_advance_all(w, data, offset, aligned) ==
    IF w.status # "OK" THEN w
    ELSE stream_keep_rest([w EXCEPT !.ctx.current_addr = @ + (Len(data) - offset)],
                          data, offset + aligned)

\* Lines 473-478: the write of the aligned part has returned.
stream_aligned_written(w, data, offset, aligned) ==
    IF w.status # "OK" THEN w
    ELSE stream_keep_rest([w EXCEPT !.ctx.current_addr = @ + aligned], data, offset + aligned)

\* Lines 466-478: the part of data after offset, rounded down to whole words.
stream_write_aligned(m, data, offset) ==
    IF RoundDown4(Len(data) - offset) > 0
    THEN stream_aligned_written(
             boot_port_flash_write(m, m.ctx.current_addr,
                 SubSeq(data, offset + 1, offset + RoundDown4(Len(data) - offset))),
             data, offset, RoundDown4(Len(data) - offset))
    ELSE stream_keep_rest(m, data, offset)

\* Lines 459-463: the write of the completed carry word has returned.
stream_carry_written(w, data, offset) ==
    IF w.status # "OK" THEN w
    ELSE stream_write_aligned([w EXCEPT !.ctx.current_addr = @ + 4, !.ctx.stream_cache = <<>>],
                              data, offset)

\* Lines 455-464: the carry has been topped up with the first offset bytes.
stream_carry_filled(m, data, offset) ==
    IF Len(m.ctx.stream_cache) = 4
    THEN stream_carry_written(
             boot_port_flash_write(m, m.ctx.current_addr, m.ctx.stream_cache), data, offset)
    ELSE stream_write_aligned(m, data, offset)

bootloader_stream_write(m, data) ==
    IF Len(data) = 0 THEN [m EXCEPT !.status = "OK"]
    ELSE IF Len(m.ctx.stream_cache) > 0
    THEN stream_carry_filled(
             [m EXCEPT !.ctx.stream_cache = @ \o Take(data, Min(4 - Len(@), Len(data)))],
             data, Min(4 - Len(m.ctx.stream_cache), Len(data)))
    ELSE stream_write_aligned(m, data, 0)

\* Lines 497-502: the write of the padded word has returned.
flush_written(w) ==
    IF w.status = "OK"
    THEN [w EXCEPT !.ctx.current_addr = @ + 4, !.ctx.stream_cache = <<>>]
    ELSE w

\* A flush that pads the last word with 00.
stream_flush_zero_pad(m) ==
    IF Len(m.ctx.stream_cache) = 0 THEN [m EXCEPT !.status = "OK"]
    ELSE flush_written(boot_port_flash_write(m, m.ctx.current_addr,
             m.ctx.stream_cache \o Rep(0, 4 - Len(m.ctx.stream_cache))))

bootloader_stream_flush(m) ==
    IF Len(m.ctx.stream_cache) = 0 THEN [m EXCEPT !.status = "OK"]
    ELSE flush_written(boot_port_flash_write(m, m.ctx.current_addr,
             m.ctx.stream_cache \o Rep(255, 4 - Len(m.ctx.stream_cache))))

\* Lines 370-376: the version word has been written.
flag_region_version_written(w, date) ==
    IF w.status # "OK" THEN w ELSE boot_port_flash_write(w, BOOT_DATE_ADDR, LE4(date))

\* Lines 360-368: the flag word has been written.
flag_region_flag_written(w, version, date) ==
    IF w.status # "OK" THEN w
    ELSE flag_region_version_written(
             boot_port_flash_write(w, BOOT_VERSION_ADDR, LE4(version)), date)

\* Lines 344-358: the erase has returned.
flag_region_erased(e, flag, version, date) ==
    IF e.status # "OK" THEN e
    ELSE flag_region_flag_written(
             boot_port_flash_write(e, BOOT_FLAG_ADDR, LE4(flag)), version, date)

bootloader_write_flag_region(m, flag, version, date) ==
    flag_region_erased(boot_port_flash_erase(m, BOOT_FLAG_REGION_ADDR), flag, version, date)

\* The last-frame branch with the state change left out.
finish_download_keep_state(m) == [m EXCEPT !.ctx.download_active = FALSE]

\* Lines 406-407: the session's data is complete.
finish_download(m) == [m EXCEPT !.ctx.download_active = FALSE, !.ctx.state = "WAIT_FINISH"]

\* Lines 414-419: the Ack, sent for the last frame too.
payload_ack(m) == IF m.status = "OK" THEN boot_port_uart_write(m, g_boot_ack) ELSE m

\* A last-frame branch that rewrites the flag region, as the component
\* library's handler does.
payload_flushed_writes_flag(f) ==
    IF f.status # "OK" THEN f
    ELSE finish_download(
             bootloader_write_flag_region(f, BOOT_FLAG_APP, f.ctx.app_version,
                                          f.ctx.update_date))

\* Lines 405-412: the flush of the last frame has returned.
payload_flushed(f) == IF f.status = "OK" THEN finish_download(f) ELSE f

\* A handler that leaves the last frame of a session without Ack.
payload_written_no_last_ack(m, remaining) ==
    IF m.status # "OK" THEN m
    ELSE IF remaining = 0 THEN payload_flushed(bootloader_stream_flush(m))
    ELSE payload_ack(m)

\* Lines 398-419: the stream write has returned.
payload_written(m, remaining) ==
    IF m.status # "OK" THEN m
    ELSE IF remaining = 0 THEN payload_ack(payload_flushed(bootloader_stream_flush(m)))
    ELSE payload_ack(m)

\* A handler that writes the chunk without the range check.
payload_range_unchecked(m, remaining, payload) ==
    payload_written(bootloader_stream_write(m, payload), remaining)

\* Lines 389-397: the range check, then the stream write.
payload_range_checked(m, remaining, payload) ==
    IF m.ctx.current_addr + RoundUp4(Len(m.ctx.stream_cache) + Len(payload))
           > BOOT_APP_START_ADDR + BOOT_APP_MAX_SIZE
    THEN [Emit(m, "overflow", m.ctx.current_addr, payload, FALSE) EXCEPT !.status = "ERROR"]
    ELSE payload_written(bootloader_stream_write(m, payload), remaining)

\* Lines 382-387: prepare_download has returned.
payload_prepared(m, remaining, payload) ==
    IF m.status # "OK" THEN m
    ELSE payload_range_checked([m EXCEPT !.ctx.state = "RECEIVING"], remaining, payload)

bootloader_handle_payload(m0, remaining, payload) ==
    payload_prepared(bootloader_prepare_download(m0), remaining, payload)

\* One iteration of the while loop of bootloader_try_extract_finish_frame.
FinishStep(cache) ==
    IF Len(cache) < BOOT_FINISH_FRAME_LEN
    THEN [act |-> "exit", cache |-> cache, version |-> W32(0), date |-> W32(0)]
    ELSE IF cache[1] # BOOT_FRAME_HEADER0 \/ cache[2] # BOOT_FRAME_HEADER1
    THEN [act |-> "skip", cache |-> bootloader_consume_cache(cache, 1),
          version |-> W32(0), date |-> W32(0)]
    ELSE IF /\ cache[11] = BOOT_FINISH_FRAME_BYTE0
            /\ cache[12] = BOOT_FINISH_FRAME_BYTE1
            /\ cache[13] = BOOT_FRAME_TAIL0
            /\ cache[14] = BOOT_FRAME_TAIL1
    THEN [act |-> "frame", cache |-> bootloader_consume_cache(cache, BOOT_FINISH_FRAME_LEN),
          version |-> WordBE(cache, 3), date |-> WordBE(cache, 7)]
    ELSE [act |-> "skip", cache |-> bootloader_consume_cache(cache, 2),
          version |-> W32(0), date |-> W32(0)]

RECURSIVE FinishFrom(_)
\* The loop, s being the outcome of the iteration just made.
FinishFrom(s) ==
    IF s.act = "skip" THEN FinishFrom(FinishStep(s.cache))
    ELSE [found |-> s.act = "frame", cache |-> s.cache, version |-> s.version, date |-> s.date]

bootloader_try_extract_finish_frame(cache) == FinishFrom(FinishStep(cache))

\* A handler that acknowledges the FinishFrame whatever the rewrite returned.
finish_flag_written_ack_always(w) ==
    IF w.status # "OK" THEN boot_port_uart_write(w, g_boot_ack)
    ELSE [boot_port_system_reset(boot_port_uart_write(w, g_boot_ack)) EXCEPT !.status = "OK"]

\* A handler that issues the system reset whatever the rewrite returned.
finish_flag_written_reset_always(w) ==
    IF w.status # "OK" THEN boot_port_system_reset(w)
    ELSE [boot_port_system_reset(boot_port_uart_write(w, g_boot_ack)) EXCEPT !.status = "OK"]

\* Lines 580-593: the flag region has been written.
finish_flag_written(w) ==
    IF w.status # "OK" THEN w
    ELSE [boot_port_system_reset(boot_port_uart_write(w, g_boot_ack)) EXCEPT !.status = "OK"]

bootloader_handle_finish_frame(m, version, date) ==
    IF m.ctx.state # "WAIT_FINISH" THEN [m EXCEPT !.status = "ERROR"]
    ELSE finish_flag_written(bootloader_write_flag_region(m, BOOT_FLAG_APP, version, date))

RECURSIVE DataFrameLoop(_)

\* A loop that leaves the context as the failed handler left it.
frame_handled_no_reset(h, remaining, payload) ==
    IF h.status # "OK"
    THEN Emit(h, "handled", remaining, payload, FALSE)
    ELSE DataFrameLoop(Emit(h, "handled", remaining, payload, TRUE))

\* Lines 230-234: handle_payload has returned for the frame (remaining, payload).
frame_handled(h, remaining, payload) ==
    IF h.status # "OK"
    THEN [Emit(h, "handled", remaining, payload, FALSE)
              EXCEPT !.ctx = bootloader_reset_context(h.ctx)]
    ELSE DataFrameLoop(Emit(h, "handled", remaining, payload, TRUE))

\* Line 229: bootloader_try_extract_frame has returned r.
frame_extracted(m, r) ==
    IF ~r.found THEN [m EXCEPT !.ctx.rx_cache = r.cache]
    ELSE frame_handled(
             bootloader_handle_payload([m EXCEPT !.ctx.rx_cache = r.cache],
                                       r.remaining, r.payload),
             r.remaining, r.payload)

\* while (bootloader_try_extract_frame(..)) { handle; on error reset the context, break }
DataFrameLoop(m) == frame_extracted(m, bootloader_try_extract_frame(m.ctx.rx_cache))

\* Lines 217-221: handle_finish_frame has returned.
finish_handled(h) ==
    IF h.status # "OK" THEN [h EXCEPT !.ctx = bootloader_reset_context(h.ctx)] ELSE h

\* Line 216: bootloader_try_extract_finish_frame has returned r.
finish_extracted(m, r) ==
    IF ~r.found THEN [m EXCEPT !.ctx.rx_cache = r.cache]
    ELSE finish_handled(
             bootloader_handle_finish_frame([m EXCEPT !.ctx.rx_cache = r.cache],
                                            r.version, r.date))

\* easy_bootloader_run after bootloader_poll_uart: lines 212-235.
after_poll(m1) ==
    IF m1.ctx.state = "WAIT_FINISH"
    THEN finish_extracted(m1, bootloader_try_extract_finish_frame(m1.ctx.rx_cache))
    ELSE DataFrameLoop(m1)

easy_bootloader_run(m) ==
    IF ~m.ctx.initialized THEN m ELSE after_poll(bootloader_poll_uart(m))

(***************************************************************************)
(* The bootloader engine of the component library                          *)
(* (easy_bootloader_compoents/src/easy_bootloader.c).  Its context has no  *)
(* state field (the field keeps its initial value here), it has no         *)
(* FinishFrame, and it shares the extractor, the stream writer and the     *)
(* flag-region rewrite with the engine above.                              *)
(***************************************************************************)

\* Lines 375-387: the flag region has been rewritten on the last DataFrame.
lib_flag_written(w) ==
    IF w.status # "OK" THEN w
    ELSE boot_port_system_reset(boot_port_uart_write(w, g_boot_ack))

\* Lines 365-388: the flush of the last frame has returned.
lib_payload_flushed(f) ==
    IF f.status # "OK" THEN f
    ELSE lib_flag_written(
             bootloader_write_flag_region([f EXCEPT !.ctx.download_active = FALSE],
                                          BOOT_FLAG_APP, f.ctx.app_version, f.ctx.update_date))

\* Lines 359-395: the stream write has returned.
lib_payload_written(m, remaining) ==
    IF m.status # "OK" THEN m
    ELSE IF remaining = 0 THEN lib_payload_flushed(bootloader_stream_flush(m))
    ELSE boot_port_uart_write(m, g_boot_ack)

\* Lines 344-357: prepare_download has returned; the range check, the stream write.
lib_payload_prepared(m, remaining, payload) ==
    IF m.status # "OK" THEN m
    ELSE IF m.ctx.current_addr + RoundUp4(Len(m.ctx.stream_cache) + Len(payload))
                > BOOT_APP_START_ADDR + BOOT_APP_MAX_SIZE
    THEN [Emit(m, "overflow", m.ctx.current_addr, payload, FALSE) EXCEPT !.status = "ERROR"]
    ELSE lib_payload_written(bootloader_stream_write(m, payload), remaining)

bootloader_handle_payload_lib(m0, remaining, payload) ==
    lib_payload_prepared(bootloader_prepare_download(m0), remaining, payload)

RECURSIVE DataFrameLoop_lib(_)

\* Lines 199-202: handle_payload has returned (or has reset the system); on
\* an error the loop is left and the context stays as it is.
lib_frame_handled(h, remaining, payload) ==
    IF h.status # "OK" \/ h.halted
    THEN Emit(h, "handled", remaining, payload, h.status = "OK")
    ELSE DataFrameLoop_lib(Emit(h, "handled", remaining, payload, TRUE))

\* Line 198: bootloader_try_extract_frame has returned r.
lib_frame_extracted(m, r) ==
    IF ~r.found THEN [m EXCEPT !.ctx.rx_cache = r.cache]
    ELSE lib_frame_handled(
             bootloader_handle_payload_lib([m EXCEPT !.ctx.rx_cache = r.cache],
                                           r.remaining, r.payload),
             r.remaining, r.payload)

\* Lines 196-203: the while loop over the frames of the cache.
DataFrameLoop_lib(m) == lib_frame_extracted(m, bootloader_try_extract_frame(m.ctx.rx_cache))

easy_bootloader_run_lib(m) ==
    IF ~m.ctx.initialized THEN m ELSE DataFrameLoop_lib(bootloader_poll_uart(m))

(***************************************************************************)
(* Application command engine.                                             *)
(***************************************************************************)
CMD_QUERY_VERSION_LEN == 6
CMD_START_FLASH_LEN == 14
AppCacheSize == CMD_START_FLASH_LEN * 2

ZeroAppCtx ==
    [rx_cache |-> <<>>, boot_flag |-> W32(0), app_version |-> W32(0), update_date |-> W32(0),
     initialized |-> FALSE]

\* A read of the flag region that takes its words most significant byte first.
app_read_flag_region_big_endian(m) ==
    [m EXCEPT !.actx.boot_flag = WordBE(m.flag, 1),
              !.actx.app_version = WordBE(m.flag, 5),
              !.actx.update_date = WordBE(m.flag, 9)]

app_read_flag_region(m) ==
    [m EXCEPT !.actx.boot_flag = WordLE(m.flag, 1),
              !.actx.app_version = WordLE(m.flag, 5),
              !.actx.update_date = WordLE(m.flag, 9)]

easy_bootloader_app_init(m) ==
    [app_read_flag_region([m EXCEPT !.actx = ZeroAppCtx]) EXCEPT !.actx.initialized = TRUE]

app_poll_uart(m) ==
    LET space == AppCacheSize - Len(m.actx.rx_cache)
        received == Min(space, Len(m.queue))
    IN  IF space = 0 THEN m
        ELSE [m EXCEPT !.actx.rx_cache = @ \o Take(m.queue, received),
                       !.queue = Drop(@, received)]

app_consume_cache(cache, count) ==
    IF count >= Len(cache) THEN <<>> ELSE SubSeq(cache, count + 1, Len(cache))

\* One iteration of the while loop of app_check_dataframe.
AppStep(cache) ==
    IF Len(cache) < CMD_QUERY_VERSION_LEN
    THEN [act |-> "exit", cmd |-> "NONE", cache |-> cache, version |-> W32(0), date |-> W32(0)]
    ELSE IF cache[1] # BOOT_FRAME_HEADER0 \/ cache[2] # BOOT_FRAME_HEADER1
    THEN [act |-> "skip", cmd |-> "NONE", cache |-> app_consume_cache(cache, 1),
          version |-> W32(0), date |-> W32(0)]
    ELSE IF cache[3] = 255 /\ cache[4] = 221 /\ cache[5] = BOOT_FRAME_TAIL0 /\ cache[6] = BOOT_FRAME_TAIL1
    THEN [act |-> "cmd", cmd |-> "QUERY_VERSION",
          cache |-> app_consume_cache(cache, CMD_QUERY_VERSION_LEN),
          version |-> W32(0), date |-> W32(0)]
    ELSE IF cache[3] = 255 /\ cache[4] = 204 /\ cache[5] = BOOT_FRAME_TAIL0 /\ cache[6] = BOOT_FRAME_TAIL1
    THEN [act |-> "cmd", cmd |-> "QUERY_DATE",
          cache |-> app_consume_cache(cache, CMD_QUERY_VERSION_LEN),
          version |-> W32(0), date |-> W32(0)]
    ELSE IF /\ Len(cache) >= CMD_START_FLASH_LEN
            /\ cache[11] = 255 /\ cache[12] = 238
            /\ cache[13] = BOOT_FRAME_TAIL0 /\ cache[14] = BOOT_FRAME_TAIL1
    THEN [act |-> "cmd", cmd |-> "START_FLASH",
          cache |-> app_consume_cache(cache, CMD_START_FLASH_LEN),
          version |-> WordBE(cache, 3), date |-> WordBE(cache, 7)]
    ELSE [act |-> "skip", cmd |-> "NONE", cache |-> app_consume_cache(cache, 2),
          version |-> W32(0), date |-> W32(0)]

RECURSIVE AppCheckFrom(_)
AppCheckFrom(s) == IF s.act = "skip" THEN AppCheckFrom(AppStep(s.cache)) ELSE s

app_check_dataframe(cache) == AppCheckFrom(AppStep(cache))

RECURSIVE DigitsRev(_)
\* The do-while of app_uint_to_str: decimal digits, least significant first.
DigitsRev(value) ==
    IF value = W32(0) THEN <<>>
    ELSE LET low == (value[1] % 10) * 65536 + value[2]
         IN  <<48 + (low % 10)>> \o DigitsRev(<<value[1] \div 10, low \div 10>>)

Reverse(s) == [i \in 1..Len(s) |-> s[Len(s) + 1 - i]]

app_uint_to_str(value, width) ==
    LET t == IF value = W32(0) THEN <<48>> ELSE DigitsRev(value)
        padded == t \o Rep(48, IF Len(t) < width THEN width - Len(t) ELSE 0)
    IN  Reverse(padded)

\* "version:" and "\r\n"
VersionPrefix == <<118, 101, 114, 115, 105, 111, 110, 58>>
CRLF == <<13, 10>>

\* A handler that formats the version word read from flash, not the cached one.
app_handle_query_version_from_flash(m) ==
    boot_port_uart_write(m, VersionPrefix \o app_uint_to_str(WordLE(m.flag, 5), 1) \o CRLF)

app_handle_query_version(m) ==
    boot_port_uart_write(m, VersionPrefix \o app_uint_to_str(m.actx.app_version, 1) \o CRLF)

app_handle_query_date(m) ==
    LET date == m.actx.update_date
        year == date[1]
        month == date[2] \div 256
        day == date[2] % 256
    IN  boot_port_uart_write(m, app_uint_to_str(W32(year), 4) \o <<45>>
                                    \o app_uint_to_str(W32(month), 2) \o <<45>>
                                    \o app_uint_to_str(W32(day), 2) \o CRLF)

\* Lines 414-419: the date word has been written; it is written again.
app_flag_region_date_written(w, date) ==
    IF w.status # "OK" THEN w ELSE boot_port_flash_write(w, BOOT_DATE_ADDR, LE4(date))

\* Lines 400-414: the version word has been written.
app_flag_region_version_written(w, date) ==
    IF w.status # "OK" THEN w
    ELSE app_flag_region_date_written(
             boot_port_flash_write(w, BOOT_DATE_ADDR, LE4(date)), date)

\* Lines 390-399: the flag word has been written.
app_flag_region_flag_written(w, version, date) ==
    IF w.status # "OK" THEN w
    ELSE app_flag_region_version_written(
             boot_port_flash_write(w, BOOT_VERSION_ADDR, LE4(version)), date)

\* Lines 378-389: the erase has returned.
app_flag_region_erased(e, flag, version, date) ==
    IF e.status # "OK" THEN e
    ELSE app_flag_region_flag_written(
             boot_port_flash_write(e, BOOT_FLAG_ADDR, LE4(flag)), version, date)

app_write_flag_region(m, flag, version, date) ==
    app_flag_region_erased(boot_port_flash_erase(m, BOOT_FLAG_REGION_ADDR), flag, version, date)

\* Lines 356-364: app_write_flag_region has returned.
start_flash_flag_written(w) == IF w.status # "OK" THEN w ELSE boot_port_system_reset(w)

\* A handler that starts the upgrade without comparing the versions.
app_handle_start_flash_always(m, new_version, new_date) ==
    start_flash_flag_written(
        app_write_flag_region(boot_port_uart_write(m, g_boot_ack),
                              BOOT_FLAG_BOOTLOADER, new_version, new_date))

app_handle_start_flash(m, new_version, new_date) ==
    IF new_version = m.actx.app_version THEN m
    ELSE start_flash_flag_written(
             app_write_flag_region(boot_port_uart_write(m, g_boot_ack),
                                   BOOT_FLAG_BOOTLOADER, new_version, new_date))

\* Lines 102-118: the switch on the command app_check_dataframe returned.
app_dispatch(m, r) ==
    IF r.cmd = "QUERY_VERSION" THEN app_handle_query_version(m)
    ELSE IF r.cmd = "QUERY_DATE" THEN app_handle_query_date(m)
    ELSE IF r.cmd = "START_FLASH" THEN app_handle_start_flash(m, r.version, r.date)
    ELSE m

\* Lines 98-100: the cache the command parser leaves.
app_parsed(m, r) == app_dispatch([m EXCEPT !.actx.rx_cache = r.cache], r)

\* easy_bootloader_app_run after app_poll_uart.
app_after_poll(m) == app_parsed(m, app_check_dataframe(m.actx.rx_cache))

easy_bootloader_app_run(m) ==
    IF ~m.actx.initialized THEN m ELSE app_after_poll(app_poll_uart(m))

EncodeFinishFrame(version, date) ==
    <<BOOT_FRAME_HEADER0, BOOT_FRAME_HEADER1>> \o BE4(version) \o BE4(date)
        \o <<BOOT_FINISH_FRAME_BYTE0, BOOT_FINISH_FRAME_BYTE1, BOOT_FRAME_TAIL0, BOOT_FRAME_TAIL1>>

EncodeStartFlash(version, date) ==
    <<BOOT_FRAME_HEADER0, BOOT_FRAME_HEADER1>> \o BE4(version) \o BE4(date)
        \o <<255, 238, BOOT_FRAME_TAIL0, BOOT_FRAME_TAIL1>>

QueryVersionCmd == <<BOOT_FRAME_HEADER0, BOOT_FRAME_HEADER1, 255, 221, BOOT_FRAME_TAIL0, BOOT_FRAME_TAIL1>>
QueryDateCmd == <<BOOT_FRAME_HEADER0, BOOT_FRAME_HEADER1, 255, 204, BOOT_FRAME_TAIL0, BOOT_FRAME_TAIL1>>

(***************************************************************************)
(* Shared plumbing of the specifications: the machine a handler runs on is *)
(* built from the variables and the handler's result is stored back.       *)
(***************************************************************************)
Mach(failAt) == Machine(ctx, actx, flashApp, flashFlag, uartQueue, failAt)

ErasedApp == Rep(255, BOOT_APP_MAX_SIZE)
ErasedFlag == Rep(255, FlagBytes)

\* The application region after an erase and a flushed write of image.
Flashed(image) == image \o Rep(255, BOOT_APP_MAX_SIZE - Len(image))

\* The context once easy_bootloader_init has returned without jumping.
ReadyCtx == [bootloader_reset_context(ZeroCtx) EXCEPT !.initialized = TRUE]

Frame(remaining, payload) == [remaining |-> remaining, payload |-> payload]

(***************************************************************************)
(* SpecCodec: the receive path alone.  A byte stream chosen in Init is     *)
(* handed to the ring buffer one byte per poll or in one piece, and each   *)
(* poll runs bootloader_poll_uart and the extraction loop of               *)
(* easy_bootloader_run; the frames returned and the sizes of the discards  *)
(* are recorded.                                                           *)
(***************************************************************************)
\* Payload contents tried: runs of one byte, and the header pair repeated.
PayloadFill == {0, 85, 170}
Alternating(n) == [i \in 1..n |-> IF i % 2 = 1 THEN BOOT_FRAME_HEADER0 ELSE BOOT_FRAME_HEADER1]
Payloads(maxLen) ==
    {Rep(b, n) : b \in PayloadFill, n \in 0..maxLen} \cup {Alternating(n) : n \in 0..maxLen}

\* Values of the 3-byte remaining field tried: 0, 1, 0x010203.
Remainings == {0, 1, 66051}

\* k garbage bytes: j bytes AA followed by k - j bytes 55, or k bytes 00.
Garbage(k) == {Rep(170, j) \o Rep(85, k - j) : j \in 0..k} \cup {Rep(0, k)}

\* A payload that itself starts with a header pair and a remaining field.
PhantomPayload == <<BOOT_FRAME_HEADER0, BOOT_FRAME_HEADER1, 7, 0, 0>>

\* The checksum field with one byte changed.
CorruptChecksums(cks) ==
    LET hi == cks \div 256
        lo == cks % 256
    IN  {256 * hi + ((lo + 1) % 256),
         256 * ((hi + 1) % 256) + lo,
         256 * ((hi + 255) % 256) + lo}

BadTails == {<<BOOT_FRAME_TAIL0, 0>>, <<0, BOOT_FRAME_TAIL1>>}

SmallPayloads == {<<>>, <<1>>, <<85, 170>>}

SingleScenario(r, p, c, f) ==
    [scn |-> "single", stream |-> RawDataFrame(r, p, c, GoodTail),
     frames |-> <<Frame(r, p)>>, cks |-> c, k |-> 0, feed |-> f]

GarbageScenario(p1, g, p2, f) ==
    [scn |-> "garbage", stream |-> EncodeDataFrame(1, p1) \o g \o EncodeDataFrame(0, p2),
     frames |-> <<Frame(1, p1), Frame(0, p2)>>, cks |-> 0, k |-> Len(g), feed |-> f]

CorruptScenario(p1, c, t, p2, f) ==
    [scn |-> "corrupt", stream |-> RawDataFrame(1, p1, c, t) \o EncodeDataFrame(0, p2),
     frames |-> <<Frame(1, p1), Frame(0, p2)>>, cks |-> c, k |-> 0, feed |-> f]

Feeds == {"byte", "chunk"}

CodecScenarios ==
    UNION {{SingleScenario(rp[1], rp[2], c, f) :
              f \in Feeds,
              c \in {SumLenPayload(rp[2]), SumRemLenPayload(rp[1], rp[2]),
                     (SumLenPayload(rp[2]) + 1) % 65536}} :
           rp \in Remainings \X Payloads(BOOT_PAYLOAD_MAX_SIZE)}
    \cup
    UNION {{GarbageScenario(p1, g, p2, f) :
              p1 \in SmallPayloads, p2 \in SmallPayloads, g \in Garbage(k), f \in Feeds} :
           k \in 0..MaxGarbage}
    \cup
    UNION {{CorruptScenario(p1, c, GoodTail, p2, f) :
              c \in CorruptChecksums(SumLenPayload(p1)), p2 \in SmallPayloads, f \in Feeds} :
           p1 \in SmallPayloads \cup {PhantomPayload}}
    \cup
    {CorruptScenario(p1, SumLenPayload(p1), t, p2, f) :
        p1 \in SmallPayloads \cup {PhantomPayload}, t \in BadTails,
        p2 \in SmallPayloads, f \in Feeds}

RECURSIVE ExtractAll(_, _, _)
\* while (bootloader_try_extract_frame(&remaining, &payload, &len)) { ... }
ExtractAll(r, got, log) ==
    IF r.found
    THEN ExtractAll(bootloader_try_extract_frame(r.cache),
                    Append(got, Frame(r.remaining, r.payload)), log \o r.log)
    ELSE [cache |-> r.cache, got |-> got, log |-> log \o r.log]

CodecInit ==
    /\ mode = "codec"
    /\ ctx = ReadyCtx
    /\ actx = ZeroAppCtx
    /\ flashApp = ErasedApp
    /\ flashFlag = ErasedFlag
    /\ uartQueue = <<>>
    /\ trace = <<>>
    /\ host \in CodecScenarios
    /\ wire = host.stream
    /\ ghost = [got |-> <<>>, log |-> <<>>]

\* The receive interrupt fills the ring buffer: one byte, or all that is left.
CodecFeed ==
    /\ mode = "codec"
    /\ wire # <<>>
    /\ uartQueue = <<>>
    /\ LET n == IF host.feed = "byte" THEN 1 ELSE Len(wire)
       IN  /\ uartQueue' = Take(wire, n)
           /\ wire' = Drop(wire, n)
    /\ UNCHANGED <<mode, ctx, actx, flashApp, flashFlag, trace, host, ghost>>

\* The poll has read the ring buffer; r is what the extraction loop leaves.
CodecExtracted(m, r) ==
    /\ ctx' = [m.ctx EXCEPT !.rx_cache = r.cache]
    /\ uartQueue' = m.queue
    /\ ghost' = [got |-> r.got, log |-> r.log]

CodecPolled(m) ==
    CodecExtracted(m, ExtractAll(bootloader_try_extract_frame(m.ctx.rx_cache),
                                 ghost.got, ghost.log))

CodecPoll ==
    /\ mode = "codec"
    /\ uartQueue # <<>>
    /\ CodecPolled(bootloader_poll_uart(Mach(0)))
    /\ UNCHANGED <<mode, actx, flashApp, flashFlag, wire, trace, host>>

CodecNext == CodecFeed \/ CodecPoll

SpecCodec == CodecInit /\ [][CodecNext]_vars

\* Every byte of the stream has been polled.
CodecDone == mode = "codec" /\ wire = <<>> /\ uartQueue = <<>>

(***************************************************************************)
(* Spec: the device as a whole.  After a reset easy_bootloader_init runs;  *)
(* it either stays in the bootloader, whose main loop calls                *)
(* easy_bootloader_run, or jumps to the application, which calls           *)
(* easy_bootloader_app_init and then easy_bootloader_app_run from its      *)
(* scheduler.  The host puts messages on the line, the receive interrupt   *)
(* moves them into the ring buffer, a flash operation may fail, and the    *)
(* device may be reset at any moment.                                      *)
(***************************************************************************)
\* Messages the host may send in one run.
MaxMsgs == 3
\* Asynchronous resets (power cycles) in one run.
MaxResets == 1
\* A handler call may see its 1st .. MaxFailAt-th flash operation fail.
MaxFailAt == 4

V1 == W32(1)
V2 == W32(2)
\* 0x07E90101 and 0x07E90202: 2025-01-01 and 2025-02-02
D1 == <<2025, 257>>
D2 == <<2025, 514>>

\* Initial stack pointer and reset vector of an image the validity check accepts.
VectorBytes == LE4(W32(BOOT_SRAM_START_ADDR)) \o LE4(W32(BOOT_APP_START_ADDR + 1))
ValidImage == VectorBytes \o Rep(255, BOOT_APP_MAX_SIZE - 8)

\* A payload whose bytes at frame offsets 10..13 are those of a FinishFrame.
TrapPayload == <<0, 0, 0, BOOT_FINISH_FRAME_BYTE0, BOOT_FINISH_FRAME_BYTE1,
                 BOOT_FRAME_TAIL0, BOOT_FRAME_TAIL1>>

EmptyLast == EncodeDataFrame(0, <<>>)

BootMsgs ==
    {EmptyLast,
     EncodeDataFrame(4, VectorBytes),
     EncodeDataFrame(0, <<9, 9, 9>>),
     EmptyLast \o EmptyLast,
     EncodeDataFrame(0, TrapPayload),
     EncodeFinishFrame(V2, D2)}

AppMsgs == {EncodeStartFlash(V2, D2), EncodeStartFlash(V1, D1), QueryVersionCmd, QueryDateCmd}

FlagRegion(flag, version, date) == LE4(flag) \o LE4(version) \o LE4(date)

\* History of the download session, read off the port calls of a poll:
\* an erase of the application region opens a session, every accepted
\* DataFrame adds its payload, the reset after an accepted FinishFrame
\* completes it.
Track(g, e) ==
    IF e.op = "erase" /\ e.addr = BOOT_APP_START_ADDR
    THEN [g EXCEPT !.session = "open", !.image = <<>>]
    ELSE IF e.op = "handled" /\ e.ok THEN [g EXCEPT !.image = @ \o e.data]
    ELSE IF e.op = "reset" THEN [g EXCEPT !.session = "complete"]
    ELSE g

RECURSIVE TrackAll(_, _)
TrackAll(g, tr) == IF tr = <<>> THEN g ELSE TrackAll(Track(g, Head(tr)), Tail(tr))

Init ==
    /\ mode = "reset"
    /\ ctx = ZeroCtx
    /\ actx = ZeroAppCtx
    /\ \/ flashFlag = ErasedFlag /\ flashApp = ErasedApp
       \/ flashFlag = FlagRegion(BOOT_FLAG_APP, V1, D1) /\ flashApp = ValidImage
    /\ uartQueue = <<>>
    /\ wire = <<>>
    /\ trace = <<>>
    /\ host = [sent |-> 0, resets |-> 0]
    /\ ghost = [session |-> "none", image |-> <<>>]

\* What a reset leaves: flash as it is, statics zeroed, the line idle.
EnterReset ==
    /\ mode' = "reset"
    /\ ctx' = ZeroCtx
    /\ actx' = ZeroAppCtx
    /\ uartQueue' = <<>>
    /\ wire' = <<>>

BootInitDone(m) ==
    /\ mode' = IF m.jumped THEN "appentry" ELSE "boot"
    /\ ctx' = m.ctx
    /\ trace' = m.tr

\* Reset handler of the bootloader image: main() calls easy_bootloader_init.
BootInit ==
    /\ mode = "reset"
    /\ BootInitDone(easy_bootloader_init(
           Machine(ZeroCtx, ZeroAppCtx, flashApp, flashFlag, <<>>, 0)))
    /\ UNCHANGED <<actx, flashApp, flashFlag, uartQueue, wire, host, ghost>>

\* Start of the application image: main() calls easy_bootloader_app_init.
AppInit ==
    /\ mode = "appentry"
    /\ actx' = easy_bootloader_app_init(Mach(0)).actx
    /\ trace' = <<>>
    /\ mode' = "app"
    /\ UNCHANGED <<ctx, flashApp, flashFlag, uartQueue, wire, host, ghost>>

\* The handler has returned (or issued the system reset): its effects are stored.
BootRunDone(m) ==
    /\ flashApp' = m.app
    /\ flashFlag' = m.flag
    /\ trace' = m.tr
    /\ ghost' = TrackAll(ghost, m.tr)
    /\ IF m.halted THEN EnterReset
       ELSE /\ mode' = mode
            /\ ctx' = m.ctx
            /\ uartQueue' = m.queue
            /\ UNCHANGED <<actx, wire>>

AppRunDone(m) ==
    /\ flashApp' = m.app
    /\ flashFlag' = m.flag
    /\ trace' = m.tr
    /\ IF m.halted THEN EnterReset
       ELSE /\ mode' = mode
            /\ actx' = m.actx
            /\ uartQueue' = m.queue
            /\ UNCHANGED <<ctx, wire>>

\* One pass of the bootloader main loop: easy_bootloader_run.
BootRun(failAt) ==
    /\ mode = "boot"
    /\ BootRunDone(easy_bootloader_run(Mach(failAt)))
    /\ UNCHANGED host

\* One run of the application's scheduler task: easy_bootloader_app_run.
AppRun(failAt) ==
    /\ mode = "app"
    /\ AppRunDone(easy_bootloader_app_run(Mach(failAt)))
    /\ UNCHANGED <<host, ghost>>

\* The receive interrupt: the next byte of the line, or (no poll in between)
\* all of them, enters the ring buffer.
Rx(n) ==
    /\ mode \in {"boot", "app"}
    /\ wire # <<>>
    /\ n = Len(wire) \/ (n = 1 /\ uartQueue = <<>>)
    /\ uartQueue' = uartQueue \o Take(wire, n)
    /\ wire' = Drop(wire, n)
    /\ UNCHANGED <<mode, ctx, actx, flashApp, flashFlag, trace, host, ghost>>

HostSend(msg) ==
    /\ mode \in {"boot", "app"}
    /\ msg \in (IF mode = "boot" THEN BootMsgs ELSE AppMsgs)
    /\ host.sent < MaxMsgs
    /\ wire = <<>> /\ uartQueue = <<>>
    /\ wire' = msg
    /\ host' = [host EXCEPT !.sent = @ + 1]
    /\ UNCHANGED <<mode, ctx, actx, flashApp, flashFlag, uartQueue, trace, ghost>>

\* Power cycle or external reset while either image runs.
Reset ==
    /\ mode \in {"boot", "app"}
    /\ host.resets < MaxResets
    /\ EnterReset
    /\ trace' = <<>>
    /\ host' = [host EXCEPT !.resets = @ + 1]
    /\ UNCHANGED <<flashApp, flashFlag, ghost>>

Next ==
    \/ BootInit
    \/ AppInit
    \/ \E failAt \in 0..MaxFailAt : BootRun(failAt)
    \/ \E failAt \in 0..MaxFailAt : AppRun(failAt)
    \/ \E n \in 1..(2 * BOOT_PACKET_MAX_SIZE) : Rx(n)
    \/ \E msg \in BootMsgs \cup AppMsgs : HostSend(msg)
    \/ Reset

Spec == Init /\ [][Next]_vars

(***************************************************************************)
(* SpecLib: the same device and host with the bootloader image built from  *)
(* the component library's engine.                                         *)
(***************************************************************************)

\* One pass of the bootloader main loop: the library's easy_bootloader_run.
LibRun(failAt) ==
    /\ mode = "boot"
    /\ BootRunDone(easy_bootloader_run_lib(Mach(failAt)))
    /\ UNCHANGED host

LibNext ==
    \/ BootInit
    \/ AppInit
    \/ \E failAt \in 0..MaxFailAt : LibRun(failAt)
    \/ \E failAt \in 0..MaxFailAt : AppRun(failAt)
    \/ \E n \in 1..(2 * BOOT_PACKET_MAX_SIZE) : Rx(n)
    \/ \E msg \in BootMsgs \cup AppMsgs : HostSend(msg)
    \/ Reset

SpecLib == Init /\ [][LibNext]_vars

(***************************************************************************)
(* SpecProvision: a device that has never been upgraded.  The flag region  *)
(* is erased; the application region is erased or already holds a valid    *)
(* image.  The bootloader is followed until it hands over to the           *)
(* application.                                                            *)
(***************************************************************************)

ProvisionInit ==
    /\ mode = "reset"
    /\ ctx = ZeroCtx
    /\ actx = ZeroAppCtx
    /\ flashFlag = ErasedFlag
    /\ flashApp \in {ErasedApp, ValidImage}
    /\ uartQueue = <<>>
    /\ wire = <<>>
    /\ trace = <<>>
    /\ host = [sent |-> 0, resets |-> 0, provisioned |-> FALSE]
    /\ ghost = [session |-> "none", image |-> <<>>]

\* One pass of the bootloader main loop; the history records whether some
\* pass has ended in the system reset that follows an accepted FinishFrame.
ProvisionRun(failAt) ==
    /\ mode = "boot"
    /\ BootRunDone(easy_bootloader_run(Mach(failAt)))
    /\ host' = [host EXCEPT !.provisioned =
                    @ \/ \E i \in 1..Len(trace') : trace'[i].op = "reset"]

ProvisionNext ==
    \/ BootInit
    \/ AppInit
    \/ \E failAt \in 0..MaxFailAt : ProvisionRun(failAt)
    \/ \E n \in 1..(2 * BOOT_PACKET_MAX_SIZE) : Rx(n)
    \/ \E msg \in BootMsgs : HostSend(msg)
    \/ Reset

SpecProvision == ProvisionInit /\ [][ProvisionNext]_vars

(***************************************************************************)
(* SpecCut: the supply fails, or the reset line is pulled, while a pass of *)
(* either engine is rewriting flash.  The flash operations the pass had    *)
(* completed stay, the one under way and those after it are not made, and  *)
(* the device starts again from its reset handler.  Flash operations do    *)
(* not fail otherwise.                                                     *)
(***************************************************************************)

\* Messages the host may send in one run: a session, its interruption and
\* the session that follows.
MaxCutMsgs == 4

CutInit ==
    /\ mode = "reset"
    /\ ctx = ZeroCtx
    /\ actx = ZeroAppCtx
    /\ \/ flashFlag = ErasedFlag /\ flashApp = ErasedApp
       \/ flashFlag = FlagRegion(BOOT_FLAG_APP, V1, D1) /\ flashApp = ValidImage
    /\ uartQueue = <<>>
    /\ wire = <<>>
    /\ trace = <<>>
    /\ host = [sent |-> 0, resets |-> 0, cut |-> "none"]
    /\ ghost = [session |-> "none", image |-> <<>>]

RECURSIVE Completed(_)
\* The port calls of a pass up to the flash operation that was not made.
Completed(tr) ==
    IF tr = <<>> THEN <<>>
    ELSE IF ~Head(tr).ok THEN <<>>
    ELSE <<Head(tr)>> \o Completed(Tail(tr))

\* The interruption fell between the erase of the flag region and the
\* write of the flag word.
CutAfterFlagErase(tr) ==
    /\ tr # <<>>
    /\ tr[Len(tr)].op = "erase"
    /\ tr[Len(tr)].addr = BOOT_FLAG_REGION_ADDR

\* m is the pass that would have gone on to its k-th flash operation.
CutDone(m, k, engine) ==
    /\ m.n = k
    /\ host.resets < MaxResets
    /\ flashApp' = m.app
    /\ flashFlag' = m.flag
    /\ ghost' = TrackAll(ghost, Completed(m.tr))
    /\ host' = [host EXCEPT !.resets = @ + 1,
                            !.cut = IF CutAfterFlagErase(Completed(m.tr)) THEN engine ELSE @]
    /\ EnterReset
    /\ trace' = <<>>

\* A pass of the bootloader main loop interrupted before its k-th flash operation.
BootCut(k) == mode = "boot" /\ CutDone(easy_bootloader_run(Mach(k)), k, "boot")

\* A run of the application task interrupted before its k-th flash operation.
AppCut(k) == mode = "app" /\ CutDone(easy_bootloader_app_run(Mach(k)), k, "app")

CutSend(msg) ==
    /\ mode \in {"boot", "app"}
    /\ msg \in (IF mode = "boot" THEN BootMsgs ELSE AppMsgs)
    /\ host.sent < MaxCutMsgs
    /\ wire = <<>> /\ uartQueue = <<>>
    /\ wire' = msg
    /\ host' = [host EXCEPT !.sent = @ + 1]
    /\ UNCHANGED <<mode, ctx, actx, flashApp, flashFlag, uartQueue, trace, ghost>>

CutNext ==
    \/ BootInit
    \/ AppInit
    \/ BootRun(0)
    \/ AppRun(0)
    \/ \E n \in 1..(2 * BOOT_PACKET_MAX_SIZE) : Rx(n)
    \/ \E msg \in BootMsgs \cup AppMsgs : CutSend(msg)
    \/ \E k \in 1..MaxFailAt : BootCut(k)
    \/ \E k \in 1..MaxFailAt : AppCut(k)

SpecCut == CutInit /\ [][CutNext]_vars

(***************************************************************************)
(* SpecBurst: a host that does not wait for the Ack and sends frames two   *)
(* at a time.  Received a byte at a time the two frames are handled by     *)
(* different passes of the main loop, received at once by the same pass.   *)
(***************************************************************************)

\* Bursts a run may contain.
MaxBursts == 2

\* The header pair, a remaining field and a declared length one above the maximum.
OversizedHeader ==
    <<BOOT_FRAME_HEADER0, BOOT_FRAME_HEADER1, 0, 0, 0>> \o BE2(BOOT_PAYLOAD_MAX_SIZE + 1)

BurstFrames ==
    {EmptyLast, EncodeDataFrame(4, VectorBytes), EncodeDataFrame(0, <<9, 9, 9>>),
     EncodeFinishFrame(V2, D2), OversizedHeader}

BurstInit ==
    /\ mode = "reset"
    /\ ctx = ZeroCtx
    /\ actx = ZeroAppCtx
    /\ flashFlag = ErasedFlag
    /\ flashApp = ErasedApp
    /\ uartQueue = <<>>
    /\ wire = <<>>
    /\ trace = <<>>
    /\ host = [sent |-> 0, resets |-> 0]
    /\ ghost = [session |-> "none", image |-> <<>>]

BurstSend(first, second) ==
    /\ mode = "boot"
    /\ host.sent < MaxBursts
    /\ wire = <<>> /\ uartQueue = <<>>
    /\ wire' = first \o second
    /\ host' = [host EXCEPT !.sent = @ + 1]
    /\ UNCHANGED <<mode, ctx, actx, flashApp, flashFlag, uartQueue, trace, ghost>>

BurstNext ==
    \/ BootInit
    \/ \E failAt \in 0..MaxFailAt : BootRun(failAt)
    \/ \E n \in 1..(2 * BOOT_PACKET_MAX_SIZE) : Rx(n)
    \/ \E first \in BurstFrames : \E second \in BurstFrames : BurstSend(first, second)

SpecBurst == BurstInit /\ [][BurstNext]_vars

(***************************************************************************)
(* SpecSplit: one fixed-length frame delivered in two pieces, with a poll  *)
(* that may run between them.  The FinishFrame goes to a bootloader that   *)
(* an empty final DataFrame has put in WAIT_FINISH, the three commands to  *)
(* the running application.                                                *)
(***************************************************************************)

SplitKinds == {"finish", "start", "qver", "qdate"}

SplitFrame(kind) ==
    CASE kind = "finish" -> EncodeFinishFrame(V2, D2)
      [] kind = "start" -> EncodeStartFlash(V2, D2)
      [] kind = "qver" -> QueryVersionCmd
      [] OTHER -> QueryDateCmd

\* host.at bytes form the first piece; host.at = Len(frame) is delivery in one piece.
SplitInit ==
    /\ mode = "reset"
    /\ ctx = ZeroCtx
    /\ actx = ZeroAppCtx
    /\ uartQueue = <<>>
    /\ wire = <<>>
    /\ trace = <<>>
    /\ ghost = [session |-> "none", image |-> <<>>]
    /\ \E kind \in SplitKinds : \E at \in 1..Len(SplitFrame(kind)) :
           /\ host = [kind |-> kind, at |-> at, stage |-> "idle"]
           /\ IF kind = "finish"
              THEN flashFlag = ErasedFlag /\ flashApp = ErasedApp
              ELSE flashFlag = FlagRegion(BOOT_FLAG_APP, V1, D1) /\ flashApp = ValidImage

\* The host sends the final DataFrame that brings the bootloader to WAIT_FINISH.
SplitPrepare ==
    /\ mode = "boot" /\ host.kind = "finish" /\ host.stage = "idle"
    /\ uartQueue = <<>>
    /\ uartQueue' = EmptyLast
    /\ host' = [host EXCEPT !.stage = "prepared"]
    /\ UNCHANGED <<mode, ctx, actx, flashApp, flashFlag, wire, trace, ghost>>

\* The first piece of the frame has been received.
SplitFirst ==
    /\ \/ mode = "boot" /\ host.stage = "prepared" /\ ctx.state = "WAIT_FINISH"
       \/ mode = "app" /\ host.stage = "idle"
    /\ uartQueue = <<>>
    /\ uartQueue' = Take(SplitFrame(host.kind), host.at)
    /\ host' = [host EXCEPT !.stage = IF host.at = Len(SplitFrame(host.kind))
                                      THEN "done" ELSE "first"]
    /\ UNCHANGED <<mode, ctx, actx, flashApp, flashFlag, wire, trace, ghost>>

\* The rest of the frame has been received, behind the first piece if no
\* poll has taken it yet.
SplitRest ==
    /\ mode \in {"boot", "app"} /\ host.stage = "first"
    /\ uartQueue' = uartQueue \o Drop(SplitFrame(host.kind), host.at)
    /\ host' = [host EXCEPT !.stage = "done"]
    /\ UNCHANGED <<mode, ctx, actx, flashApp, flashFlag, wire, trace, ghost>>

\* A pass of the running engine's main loop that finds bytes to read.
SplitPoll == uartQueue # <<>> /\ (BootRun(0) \/ AppRun(0))

SplitNext == BootInit \/ AppInit \/ SplitPrepare \/ SplitFirst \/ SplitRest \/ SplitPoll

SpecSplit == SplitInit /\ [][SplitNext]_vars

\* Every byte of the frame has been received and polled.
SplitDone == host.stage = "done" /\ uartQueue = <<>>

(***************************************************************************)
(* SpecPrefix: a stop-and-wait host in the data phase.  Its next DataFrame *)
(* is the last of the session; on the line it is preceded by bytes that    *)
(* are not a DataFrame: noise, a header pair left by a damaged frame, or a *)
(* FinishFrame sent too early.  The host then waits for the Ack.           *)
(***************************************************************************)

\* A header pair followed by a remaining field and a declared length within
\* the payload limit.
SpuriousHeader ==
    <<BOOT_FRAME_HEADER0, BOOT_FRAME_HEADER1, 0, 0, 0>> \o BE2(BOOT_PAYLOAD_MAX_SIZE)

\* A FinishFrame whose bytes 5 and 6 (low byte of the version, high byte of
\* the date) read as a DataFrame length within the payload limit, as the
\* 02 07 of FinishFrame{2, 0x07E9....} do with the limit of the shipped build.
EarlyFinishFrame == EncodeFinishFrame(W32(256), <<256 * BOOT_PAYLOAD_MAX_SIZE, 0>>)

Prefixes ==
    {<<>>, <<1, 2, 3>>, OversizedHeader, SpuriousHeader,
     EncodeFinishFrame(V2, D2), EarlyFinishFrame}

PrefixPayloads == {<<>>, <<9, 9, 9>>}

\* host.opened: a first DataFrame has put the bootloader in RECEIVING before
\* the prefix and the last frame are sent.
PrefixInit ==
    /\ mode = "reset"
    /\ ctx = ZeroCtx
    /\ actx = ZeroAppCtx
    /\ flashFlag = ErasedFlag
    /\ flashApp = ErasedApp
    /\ uartQueue = <<>>
    /\ wire = <<>>
    /\ trace = <<>>
    /\ ghost = [session |-> "none", image |-> <<>>]
    /\ \E prefix \in Prefixes : \E payload \in PrefixPayloads : \E opened \in BOOLEAN :
           host = [prefix |-> prefix, payload |-> payload, opened |-> opened, stage |-> "idle"]

PrefixOpen ==
    /\ mode = "boot" /\ host.opened /\ host.stage = "idle"
    /\ uartQueue = <<>>
    /\ uartQueue' = EncodeDataFrame(4, VectorBytes)
    /\ host' = [host EXCEPT !.stage = "opening"]
    /\ UNCHANGED <<mode, ctx, actx, flashApp, flashFlag, wire, trace, ghost>>

PrefixSend ==
    /\ mode = "boot"
    /\ \/ host.stage = "idle" /\ ~host.opened
       \/ host.stage = "opening" /\ ctx.state = "RECEIVING"
    /\ uartQueue = <<>> /\ wire = <<>>
    /\ wire' = host.prefix \o EncodeDataFrame(0, host.payload)
    /\ host' = [host EXCEPT !.stage = "sent"]
    /\ UNCHANGED <<mode, ctx, actx, flashApp, flashFlag, uartQueue, trace, ghost>>

\* A pass of the bootloader main loop that finds bytes to read.
PrefixPoll == uartQueue # <<>> /\ BootRun(0)

PrefixNext ==
    \/ BootInit
    \/ PrefixOpen
    \/ PrefixSend
    \/ \E n \in 1..(2 * BOOT_PACKET_MAX_SIZE) : Rx(n)
    \/ PrefixPoll

SpecPrefix == PrefixInit /\ [][PrefixNext]_vars

(***************************************************************************)
(* SpecBoot: power-on alone.  The flag word and the first two words of the *)
(* application region are whatever the flash holds; the reset handler runs *)
(* easy_bootloader_init and, if it jumped, the application starts.         *)
(***************************************************************************)
\* Flag words tried: the three the code names, 0, 3 and 0x00020002.
BootFlags == {BOOT_FLAG_BOOTLOADER, BOOT_FLAG_APP, BOOT_FLAG_ERASED, W32(0), W32(3), <<2, 2>>}

\* Initial stack pointers tried: the ends of SRAM and CCM, and values outside both.
StackWords ==
    {W32(BOOT_SRAM_START_ADDR), W32(BOOT_SRAM_END_ADDR), W32(BOOT_SRAM_END_ADDR + 1),
     W32(BOOT_SRAM_START_ADDR - 1), W32(BOOT_CCM_START_ADDR), W32(BOOT_CCM_END_ADDR),
     W32(BOOT_CCM_START_ADDR - 1), W32(BOOT_CCM_END_ADDR + 1),
     W32(0), BOOT_FLAG_ERASED}

\* Reset vectors tried: odd and even addresses in and around the application region.
ResetWords ==
    {W32(BOOT_APP_START_ADDR + 1), W32(BOOT_APP_START_ADDR), W32(BOOT_APP_START_ADDR - 1),
     W32(BOOT_APP_END_ADDR), W32(BOOT_APP_END_ADDR + 2), BOOT_FLAG_ERASED}

ImageWith(w0, w1) == LE4(w0) \o LE4(w1) \o Rep(255, BOOT_APP_MAX_SIZE - 8)

BootOnlyInit ==
    /\ mode = "reset"
    /\ ctx = ZeroCtx
    /\ actx = ZeroAppCtx
    /\ flashFlag \in {FlagRegion(f, V1, D1) : f \in BootFlags}
    /\ flashApp \in {ImageWith(w0, w1) : w0 \in StackWords, w1 \in ResetWords}
    /\ uartQueue = <<>>
    /\ wire = <<>>
    /\ trace = <<>>
    /\ host = [sent |-> 0, resets |-> 0]
    /\ ghost = [session |-> "none", image |-> <<>>]

BootOnlyNext == BootInit \/ AppInit

SpecBoot == BootOnlyInit /\ [][BootOnlyNext]_vars

\* The port calls of the last handler include one of kind op.
Called(op) == \E i \in 1..Len(trace) : trace[i].op = op

\* The flag word in flash and the verdict of the validity check on the flash.
FlagWord == WordLE(flashFlag, 1)
ImageValid == check_app_valid_arm(WordLE(flashApp, 1), WordLE(flashApp, 5))

\* C1: easy_bootloader_init calls jump_to_app if and only if the flag word is
\* APP and the validity check passes; with flag BOOTLOADER it neither jumps
\* nor runs the validity check; with any other flag word it stays resident.
C1_JumpIffAppAndValid ==
    (mode \in {"boot", "appentry"}) =>
        /\ Called("jump") <=> (FlagWord = BOOT_FLAG_APP /\ ImageValid)
        /\ (mode = "appentry") <=> Called("jump")
        /\ (mode = "boot") => ctx.initialized
        /\ (FlagWord = BOOT_FLAG_BOOTLOADER) => ~Called("check") /\ ~Called("jump")
        /\ (FlagWord # BOOT_FLAG_BOOTLOADER) => Called("check")

\* C1 witness: init has jumped with flag APP; the stack pointer is in CCM.
C1_Witness ==
    /\ mode = "appentry"
    /\ Called("jump")
    /\ FlagWord = BOOT_FLAG_APP
    /\ WordLE(flashApp, 1) = W32(BOOT_CCM_END_ADDR)

(***************************************************************************)
(* SpecBootRiscv: power-on of the CH32V307 build, whose validity check is   *)
(* the entry-address variant.                                              *)
(***************************************************************************)
RiscvFlags == {BOOT_FLAG_BOOTLOADER, BOOT_FLAG_APP, CH32_BOOT_FLAG_ERASED, W32(0)}

\* First words tried: instruction words, 0, the erased value, FFFFFFFF.
FirstWords == {<<0, 111>>, W32(0), CH32_BOOT_FLAG_ERASED, <<65535, 65535>>}

\* Entry words tried: even and odd addresses in and around the application region.
EntryWords ==
    {W32(CH32_BOOT_APP_START_ADDR), W32(CH32_BOOT_APP_START_ADDR + 1),
     W32(CH32_BOOT_APP_START_ADDR + 2), W32(CH32_BOOT_APP_START_ADDR - 2),
     W32(CH32_BOOT_APP_END_ADDR), W32(CH32_BOOT_APP_END_ADDR - 1),
     W32(CH32_BOOT_APP_END_ADDR + 1), W32(0), CH32_BOOT_FLAG_ERASED}

RiscvInit ==
    /\ mode = "reset"
    /\ ctx = ZeroCtx
    /\ actx = ZeroAppCtx
    /\ flashFlag \in {FlagRegion(f, V1, D1) : f \in RiscvFlags}
    /\ flashApp \in {ImageWith(w0, w1) : w0 \in FirstWords, w1 \in EntryWords}
    /\ uartQueue = <<>>
    /\ wire = <<>>
    /\ trace = <<>>
    /\ host = [sent |-> 0, resets |-> 0]
    /\ ghost = [session |-> "none", image |-> <<>>]

\* Reset handler of the CH32V307 bootloader image.
RiscvBootInit ==
    /\ mode = "reset"
    /\ BootInitDone(easy_bootloader_init_riscv(
           Machine(ZeroCtx, ZeroAppCtx, flashApp, flashFlag, <<>>, 0)))
    /\ UNCHANGED <<actx, flashApp, flashFlag, uartQueue, wire, host, ghost>>

RiscvNext == RiscvBootInit \/ AppInit

SpecBootRiscv == RiscvInit /\ [][RiscvNext]_vars

\* w lies in the closed range [lo, hi] of addresses.
InWordRange(w, lo, hi) == WLe(W32(lo), w) /\ WLe(w, W32(hi))

\* The outcome of the validity check made by the reset handler.
CheckReturned(valid) == \E i \in 1..Len(trace) : trace[i].op = "check" /\ trace[i].ok = valid

(***************************************************************************)
(* SpecErased: power-on of either build after the application region was   *)
(* erased and nothing, or nothing up to the first 8 bytes, was written.     *)
(***************************************************************************)
\* In flash either erased value may be found, and any flag.
ErasedWords == {BOOT_FLAG_ERASED, CH32_BOOT_FLAG_ERASED}

\* The words after the first two: erased, or left from a write further on.
LaterWords == ErasedWords \cup {W32(0), W32(BOOT_APP_START_ADDR + 1), W32(CH32_BOOT_APP_START_ADDR)}

ErasedInit ==
    /\ mode = "reset"
    /\ ctx = ZeroCtx
    /\ actx = ZeroAppCtx
    /\ flashFlag \in {FlagRegion(f, V1, D1) : f \in BootFlags \cup RiscvFlags}
    /\ flashApp \in {LE4(e) \o LE4(e) \o LE4(w) \o Rep(255, BOOT_APP_MAX_SIZE - 12) :
                         e \in ErasedWords, w \in LaterWords}
    /\ uartQueue = <<>>
    /\ wire = <<>>
    /\ trace = <<>>
    /\ host \in {[arch |-> a] : a \in {"arm", "riscv"}}
    /\ ghost = [session |-> "none", image |-> <<>>]

ErasedNext ==
    \/ host.arch = "arm" /\ BootInit
    \/ host.arch = "riscv" /\ RiscvBootInit

SpecErased == ErasedInit /\ [][ErasedNext]_vars

\* The context init leaves when it stays resident: the initial values, the
\* three words read from the flag region, initialized set.
ResidentCtx ==
    [ReadyCtx EXCEPT !.boot_flag = WordLE(flashFlag, 1),
                     !.app_version = WordLE(flashFlag, 5),
                     !.update_date = WordLE(flashFlag, 9)]

\* C21: with the first 8 bytes of the application region erased (FF or the
\* target's erased word, twice) the validity check, on either build, returns
\* invalid whenever init makes it, so init never jumps: once it has run the
\* bootloader is resident, and the check has left the context with nothing
\* but what init itself set.
C21_ErasedImageIsInvalid ==
    /\ ~CheckReturned(TRUE)
    /\ ~Called("jump")
    /\ mode # "appentry"
    /\ (mode = "boot") =>
           /\ ctx = ResidentCtx
           /\ (FlagWord # BOOT_FLAG_BOOTLOADER) => CheckReturned(FALSE)

\* C21 witness: the BOOT_ARCH_RISCV build has booted with flag APP on a region
\* that reads FF throughout: the check returned invalid and init stayed.
C21_Witness ==
    /\ mode = "boot"
    /\ host.arch = "riscv"
    /\ FlagWord = BOOT_FLAG_APP
    /\ flashApp = ErasedApp
    /\ CheckReturned(FALSE)

\* C19: the stack-pointer/reset-vector check returns valid exactly when word0
\* lies in [SRAM_START, SRAM_END] or in [CCM_START, CCM_END], word1 lies in
\* [APP_START, APP_END] and is odd, and neither word is the erased sentinel.
C19_StackVectorCheck ==
    Called("check") =>
        (CheckReturned(TRUE) <=>
            /\ \/ InWordRange(WordLE(flashApp, 1), BOOT_SRAM_START_ADDR, BOOT_SRAM_END_ADDR)
               \/ InWordRange(WordLE(flashApp, 1), BOOT_CCM_START_ADDR, BOOT_CCM_END_ADDR)
            /\ InWordRange(WordLE(flashApp, 5), BOOT_APP_START_ADDR, BOOT_APP_END_ADDR)
            /\ WordLE(flashApp, 5)[2] % 2 = 1
            /\ WordLE(flashApp, 1) # BOOT_FLAG_ERASED
            /\ WordLE(flashApp, 5) # BOOT_FLAG_ERASED)

\* C19 witness: the check has returned valid for a stack pointer at the last
\* address of the secondary range and a reset vector at the last (odd)
\* address of the application region, with a flag that does not jump.
C19_Witness ==
    /\ mode = "boot"
    /\ CheckReturned(TRUE)
    /\ WordLE(flashApp, 1) = W32(BOOT_CCM_END_ADDR)
    /\ WordLE(flashApp, 5) = W32(BOOT_APP_END_ADDR)

\* C20: the entry-address check returns valid exactly when word1 lies in
\* [APP_START, APP_END] and is even, and neither word0 nor word1 is the
\* erased sentinel of the build.
C20_EntryAddressCheck ==
    Called("check") =>
        (CheckReturned(TRUE) <=>
            /\ InWordRange(WordLE(flashApp, 5), CH32_BOOT_APP_START_ADDR, CH32_BOOT_APP_END_ADDR)
            /\ WordLE(flashApp, 5)[2] % 2 = 0
            /\ WordLE(flashApp, 1) # CH32_BOOT_FLAG_ERASED
            /\ WordLE(flashApp, 5) # CH32_BOOT_FLAG_ERASED)

\* C20 witness: the check has returned valid for the last even address of the
\* application region as entry and FFFFFFFF, which is not this build's
\* erased value, as first word; the flag was APP and init has jumped.
C20_Witness ==
    /\ mode = "appentry"
    /\ CheckReturned(TRUE)
    /\ WordLE(flashApp, 1) = <<65535, 65535>>
    /\ WordLE(flashApp, 5) = W32(CH32_BOOT_APP_END_ADDR - 1)

(***************************************************************************)
(* Hosts that wait for the Ack.  The Acks a handler sent travel back to    *)
(* the host; host.acks counts those on their way.                          *)
(***************************************************************************)
AckCount(tr) == Cardinality({i \in 1..Len(tr) : tr[i].op = "uart" /\ tr[i].data = g_boot_ack})

RECURSIVE HostImage(_)
\* The image the host sends: the payloads of its frames, in order.
HostImage(frames) ==
    IF frames = <<>> THEN <<>> ELSE Head(frames).payload \o HostImage(Tail(frames))

EncodeFrame(f) == EncodeDataFrame(f.remaining, f.payload)

\* The frame with the low byte of its checksum changed.
CorruptFrame(f) ==
    RawDataFrame(f.remaining, f.payload, (SumLenPayload(f.payload) + 1) % 65536, GoodTail)

(***************************************************************************)
(* SpecArq: a download over a line that loses or corrupts DataFrames and   *)
(* loses Acks.  The host sends a frame, waits for its Ack and, when the    *)
(* frame or the Ack was lost, sends the same frame again.                  *)
(***************************************************************************)
\* Frames or Acks the line may lose or corrupt in one run.
MaxLosses == 2

ArqSessions ==
    {<<Frame(4, <<1, 2, 3, 4>>), Frame(0, <<5, 6, 7, 8>>)>>,
     <<Frame(3, <<1, 2, 3>>), Frame(0, <<4, 5, 6>>)>>,
     <<Frame(3, <<1, 2>>), Frame(2, <<3>>), Frame(0, <<4, 5>>)>>,
     <<Frame(0, <<1, 2, 3, 4, 5>>)>>}

ArqInit ==
    /\ mode = "reset"
    /\ ctx = ZeroCtx
    /\ actx = ZeroAppCtx
    /\ flashFlag = FlagRegion(BOOT_FLAG_BOOTLOADER, V2, D2)
    /\ flashApp = ValidImage
    /\ uartQueue = <<>>
    /\ wire = <<>>
    /\ trace = <<>>
    /\ host \in {[frames |-> f, next |-> 1, waiting |-> FALSE, acks |-> 0,
                  lost |-> FALSE, losses |-> 0] : f \in ArqSessions}
    /\ ghost = [session |-> "none", image |-> <<>>]

\* The handler has returned: its effects are stored, its Acks are on their way.
HostRunDone(m) ==
    /\ BootRunDone(m)
    /\ host' = [host EXCEPT !.acks = @ + AckCount(m.tr)]

\* One pass of the bootloader main loop, every flash operation succeeding.
ArqRun ==
    /\ mode = "boot"
    /\ HostRunDone(easy_bootloader_run(Mach(0)))

ArqSend ==
    /\ mode = "boot"
    /\ ~host.waiting
    /\ host.next <= Len(host.frames)
    /\ wire = <<>> /\ uartQueue = <<>>
    /\ wire' = EncodeFrame(host.frames[host.next])
    /\ host' = [host EXCEPT !.waiting = TRUE]
    /\ UNCHANGED <<mode, ctx, actx, flashApp, flashFlag, uartQueue, trace, ghost>>

\* The frame on the line is lost before its first byte arrives.
ArqLoseFrame ==
    /\ host.losses < MaxLosses
    /\ host.waiting
    /\ wire = EncodeFrame(host.frames[host.next])
    /\ wire' = <<>>
    /\ host' = [host EXCEPT !.lost = TRUE, !.losses = @ + 1]
    /\ UNCHANGED <<mode, ctx, actx, flashApp, flashFlag, uartQueue, trace, ghost>>

\* The frame on the line arrives with a changed checksum byte.
ArqCorruptFrame ==
    /\ host.losses < MaxLosses
    /\ host.waiting
    /\ wire = EncodeFrame(host.frames[host.next])
    /\ wire' = CorruptFrame(host.frames[host.next])
    /\ host' = [host EXCEPT !.lost = TRUE, !.losses = @ + 1]
    /\ UNCHANGED <<mode, ctx, actx, flashApp, flashFlag, uartQueue, trace, ghost>>

ArqLoseAck ==
    /\ host.losses < MaxLosses
    /\ host.acks > 0
    /\ host' = [host EXCEPT !.acks = @ - 1, !.lost = TRUE, !.losses = @ + 1]
    /\ UNCHANGED <<mode, ctx, actx, flashApp, flashFlag, uartQueue, wire, trace, ghost>>

\* The host receives the Ack of the frame it sent and moves to the next frame.
ArqAck ==
    /\ host.waiting
    /\ host.acks > 0
    /\ host' = [host EXCEPT !.acks = @ - 1, !.waiting = FALSE, !.next = @ + 1, !.lost = FALSE]
    /\ UNCHANGED <<mode, ctx, actx, flashApp, flashFlag, uartQueue, wire, trace, ghost>>

\* No Ack came for a frame that, or whose Ack, was lost: the host will send
\* the same frame again.
ArqTimeout ==
    /\ host.waiting
    /\ host.lost
    /\ host.acks = 0
    /\ wire = <<>> /\ uartQueue = <<>>
    /\ host' = [host EXCEPT !.waiting = FALSE, !.lost = FALSE]
    /\ UNCHANGED <<mode, ctx, actx, flashApp, flashFlag, uartQueue, wire, trace, ghost>>

ArqNext ==
    \/ BootInit
    \/ ArqRun
    \/ \E n \in 1..(2 * BOOT_PACKET_MAX_SIZE) : Rx(n)
    \/ ArqSend
    \/ ArqLoseFrame
    \/ ArqCorruptFrame
    \/ ArqLoseAck
    \/ ArqAck
    \/ ArqTimeout

SpecArq == ArqInit /\ [][ArqNext]_vars

\* Every frame of the session has been acknowledged.
ArqDone == mode = "boot" /\ host.next > Len(host.frames)

(***************************************************************************)
(* SpecLive: the upgrade flow of the README.  The application runs with    *)
(* flag APP; the host sends StartFlash with a new version, then, once the  *)
(* bootloader runs, the DataFrames in order, each after the Ack of the     *)
(* previous one, then the FinishFrame.  No flash operation fails and       *)
(* nothing is lost.  The receive interrupt hands the line's bytes to the   *)
(* ring buffer one at a time (USART RXNE interrupt) or a burst at a time   *)
(* (DMA with idle-line detection).  The main loop of the bootloader, the   *)
(* scheduler task of the application (every 10 ms), the receive interrupt  *)
(* and the host all keep running: each is weakly fair.                     *)
(***************************************************************************)
LiveSessions ==
    {<<Frame(3, VectorBytes), Frame(0, <<9, 9, 9>>)>>,
     <<Frame(0, VectorBytes)>>,
     <<Frame(5, <<1, 2, 3>>), Frame(2, <<4, 5, 6>>), Frame(0, <<7, 8>>)>>}

LiveInit ==
    /\ mode = "reset"
    /\ ctx = ZeroCtx
    /\ actx = ZeroAppCtx
    /\ flashFlag = FlagRegion(BOOT_FLAG_APP, V1, D1)
    /\ flashApp = ValidImage
    /\ uartQueue = <<>>
    /\ wire = <<>>
    /\ trace = <<>>
    /\ host \in {[phase |-> "start", frames |-> f, next |-> 1, waiting |-> FALSE, acks |-> 0,
                  feed |-> d] : f \in LiveSessions, d \in {"byte", "burst"}}
    /\ ghost = [session |-> "none", image |-> <<>>]

LiveBootRun ==
    /\ mode = "boot"
    /\ HostRunDone(easy_bootloader_run(Mach(0)))

HostAppRunDone(m) ==
    /\ AppRunDone(m)
    /\ host' = [host EXCEPT !.acks = @ + AckCount(m.tr)]

LiveAppRun ==
    /\ mode = "app"
    /\ HostAppRunDone(easy_bootloader_app_run(Mach(0)))
    /\ UNCHANGED ghost

\* What the host sends next: StartFlash to the application, then the frames
\* of the image and the FinishFrame to the bootloader.
LiveMsg ==
    IF host.phase = "start" THEN EncodeStartFlash(V2, D2)
    ELSE IF host.phase = "data" THEN EncodeFrame(host.frames[host.next])
    ELSE EncodeFinishFrame(V2, D2)

LiveSend ==
    /\ host.phase \in {"start", "data", "finish"}
    /\ mode = (IF host.phase = "start" THEN "app" ELSE "boot")
    /\ ~host.waiting
    /\ wire = <<>> /\ uartQueue = <<>>
    /\ wire' = LiveMsg
    /\ host' = [host EXCEPT !.waiting = TRUE]
    /\ UNCHANGED <<mode, ctx, actx, flashApp, flashFlag, uartQueue, trace, ghost>>

\* The host's position after the Ack of what it sent.
LiveAcked(h) ==
    IF h.phase = "start" THEN [h EXCEPT !.phase = "data"]
    ELSE IF h.phase = "data"
    THEN [h EXCEPT !.next = @ + 1,
                   !.phase = IF h.next = Len(h.frames) THEN "finish" ELSE "data"]
    ELSE [h EXCEPT !.phase = "done"]

LiveAck ==
    /\ host.waiting
    /\ host.acks > 0
    /\ host' = LiveAcked([host EXCEPT !.acks = @ - 1, !.waiting = FALSE])
    /\ UNCHANGED <<mode, ctx, actx, flashApp, flashFlag, uartQueue, wire, trace, ghost>>

LiveRx ==
    \E n \in 1..(2 * BOOT_PACKET_MAX_SIZE) :
        /\ n = (IF host.feed = "byte" THEN 1 ELSE Len(wire))
        /\ Rx(n)

LiveNext ==
    \/ BootInit
    \/ AppInit
    \/ LiveBootRun
    \/ LiveAppRun
    \/ LiveRx
    \/ LiveSend
    \/ LiveAck

SpecLive ==
    /\ LiveInit
    /\ [][LiveNext]_vars
    /\ WF_vars(BootInit)
    /\ WF_vars(AppInit)
    /\ WF_vars(LiveBootRun)
    /\ WF_vars(LiveAppRun)
    /\ WF_vars(LiveRx)
    /\ WF_vars(LiveSend)
    /\ WF_vars(LiveAck)

\* The FinishFrame has been acknowledged, the flag region names the new
\* version, the application region holds the host's image, and the device
\* runs that image if it passes the validity check.
UpgradeDone ==
    /\ host.phase = "done"
    /\ flashFlag = FlagRegion(BOOT_FLAG_APP, V2, D2)
    /\ flashApp = Flashed(HostImage(host.frames))
    /\ IF ImageValid THEN mode = "app" /\ actx.app_version = V2 ELSE mode = "boot"

\* The flow has come to rest short of its end: the host waits for an Ack, and
\* neither a byte nor an Ack is on its way.
LiveAtRest ==
    /\ mode \in {"boot", "app"}
    /\ host.waiting
    /\ host.acks = 0
    /\ wire = <<>> /\ uartQueue = <<>>

\* Nothing the device, the line or the host does ends the rest.
LiveAtRestIsFinal == [][LiveAtRest => LiveAtRest']_vars

(***************************************************************************)
(* SpecWriter: the flash stream writer under a download.  The host sends   *)
(* the image in chunks, one DataFrame per chunk, each carrying the number  *)
(* of bytes still to come; a poll of the bootloader handles the frame, and *)
(* any flash operation of the poll may fail.  Every flash write of the     *)
(* download is recorded.                                                   *)
(***************************************************************************)
\* Chunks of one download.
MaxChunks == 3
\* Bytes of one chunk.
MaxChunkLen == 6

\* The k-th chunk, n bytes long: AA.., BB.., CC.. or bytes that all differ.
Chunk(k, n, fill) ==
    [i \in 1..n |-> IF fill = "const" THEN (170 + 17 * (k - 1)) % 256 ELSE (16 * k + i) % 256]

\* Downloads of 1..MaxChunks chunks of 0..MaxChunkLen bytes; the host ends
\* the download with the frame that carries its last byte.
WriterDownloads ==
    {c \in UNION {[1..n -> 0..MaxChunkLen] : n \in 1..MaxChunks} :
         Len(c) = 1 \/ c[Len(c)] > 0}

RECURSIVE SumLens(_, _)
SumLens(lens, from) == IF from > Len(lens) THEN 0 ELSE lens[from] + SumLens(lens, from + 1)

RECURSIVE Concat(_)
Concat(chunks) == IF chunks = <<>> THEN <<>> ELSE Head(chunks) \o Concat(Tail(chunks))

WriterInit ==
    /\ mode = "boot"
    /\ ctx = ReadyCtx
    /\ actx = ZeroAppCtx
    /\ flashApp \in {ErasedApp, ValidImage}
    /\ flashFlag = FlagRegion(BOOT_FLAG_BOOTLOADER, V1, D1)
    /\ uartQueue = <<>>
    /\ wire = <<>>
    /\ trace = <<>>
    /\ \E lens \in WriterDownloads : \E fill \in {"const", "count"} :
           host = [chunks |-> [k \in 1..Len(lens) |-> Chunk(k, lens[k], fill)],
                   lens |-> lens, next |-> 1]
    /\ ghost = [bytes |-> <<>>, contiguous |-> TRUE, accepted |-> 0, erases |-> 0]

\* The record of the download, read off the port calls of a poll.
WriterTrack(g, e) ==
    IF e.op = "erase" THEN [g EXCEPT !.erases = @ + 1]
    ELSE IF e.op = "write"
    THEN [g EXCEPT !.bytes = @ \o e.data,
                   !.contiguous = @ /\ e.ok /\ e.addr = BOOT_APP_START_ADDR + Len(g.bytes)]
    ELSE IF e.op = "handled" /\ e.ok THEN [g EXCEPT !.accepted = @ + 1]
    ELSE g

RECURSIVE WriterTrackAll(_, _)
WriterTrackAll(g, tr) ==
    IF tr = <<>> THEN g ELSE WriterTrackAll(WriterTrack(g, Head(tr)), Tail(tr))

\* The host sends the next chunk; the receive path puts the frame in the ring buffer.
WriterSend ==
    /\ host.next <= Len(host.chunks)
    /\ uartQueue = <<>>
    /\ uartQueue' = EncodeDataFrame(SumLens(host.lens, host.next + 1), host.chunks[host.next])
    /\ host' = [host EXCEPT !.next = @ + 1]
    /\ UNCHANGED <<mode, ctx, actx, flashApp, flashFlag, wire, trace, ghost>>

WriterRunDone(m) ==
    /\ flashApp' = m.app
    /\ flashFlag' = m.flag
    /\ trace' = m.tr
    /\ ctx' = m.ctx
    /\ uartQueue' = m.queue
    /\ ghost' = WriterTrackAll(ghost, m.tr)

\* One pass of the bootloader main loop with a frame waiting.
WriterRun(failAt) ==
    /\ uartQueue # <<>>
    /\ WriterRunDone(easy_bootloader_run(Mach(failAt)))
    /\ UNCHANGED <<mode, actx, wire, host>>

WriterNext ==
    \/ WriterSend
    \/ \E failAt \in 0..MaxFailAt : WriterRun(failAt)

SpecWriter == WriterInit /\ [][WriterNext]_vars

\* Every chunk of the download was sent and accepted.
WriterDone ==
    /\ host.next > Len(host.chunks)
    /\ uartQueue = <<>>
    /\ ghost.accepted = Len(host.chunks)

(***************************************************************************)
(* Properties of the frame codec, checked under SpecCodec.                 *)
(***************************************************************************)
SingleFrame == host.frames[1]

\* C5 (as amended): a DataFrame with a valid header, a declared length of at
\* most PAYLOAD_MAX and a valid tail is accepted if and only if its checksum
\* field equals the sum modulo 2^16 of the two length bytes and the payload
\* bytes; the remaining field is not part of the sum.
C5_ChecksumCoversLengthAndPayload ==
    (CodecDone /\ host.scn = "single") =>
        IF host.cks = SumLenPayload(SingleFrame.payload)
        THEN ghost.got = <<SingleFrame>>
        ELSE ghost.got = <<>>

\* C5 witness: a frame of maximum length with a non-zero remaining field was
\* accepted although its checksum differs from the sum taken from the
\* remaining field.
C5_Witness ==
    /\ CodecDone /\ host.scn = "single"
    /\ SingleFrame.remaining = 66051
    /\ Len(SingleFrame.payload) = BOOT_PAYLOAD_MAX_SIZE
    /\ host.cks # SumRemLenPayload(SingleFrame.remaining, SingleFrame.payload)
    /\ ghost.got = <<SingleFrame>>

\* C5 as stated: the frame is accepted if and only if its checksum field equals
\* the sum modulo 2^16 of the remaining, length and payload bytes.
C5_ChecksumCoversRemaining ==
    (CodecDone /\ host.scn = "single") =>
        IF host.cks = SumRemLenPayload(SingleFrame.remaining, SingleFrame.payload)
        THEN ghost.got = <<SingleFrame>>
        ELSE ghost.got = <<>>

\* C6: a DataFrame with the checksum the extractor verifies, of any payload
\* length 0..PAYLOAD_MAX, is extracted with the same payload and remaining
\* whether it is delivered one byte per poll or in one piece; until its last
\* byte has been polled nothing is reported and none of its bytes is consumed.
C6_ByteAndChunkAgree ==
    (mode = "codec" /\ host.scn = "single"
        /\ host.cks = SumLenPayload(SingleFrame.payload)) =>
        IF CodecDone
        THEN ghost.got = <<SingleFrame>> /\ ctx.rx_cache = <<>>
        ELSE /\ ghost.got = <<>>
             /\ ghost.log = <<>>
             /\ ctx.rx_cache \o uartQueue \o wire = host.stream

\* C6 witness: a frame of maximum payload length delivered one byte per poll
\* has been extracted.
C6_Witness ==
    /\ CodecDone /\ host.scn = "single" /\ host.feed = "byte"
    /\ Len(SingleFrame.payload) = BOOT_PAYLOAD_MAX_SIZE
    /\ host.cks = SumLenPayload(SingleFrame.payload)
    /\ ghost.got = <<SingleFrame>>

\* C7: for the stream frame, k garbage bytes without a header pair, frame, the
\* extractor returns both frames in order and makes exactly k discards, each
\* of one byte.
C7_GarbageBetweenFrames ==
    (CodecDone /\ host.scn = "garbage") =>
        /\ ghost.got = host.frames
        /\ ghost.log = Rep(1, host.k)
        /\ ctx.rx_cache = <<>>

\* C7 witness: the longest garbage run, delivered in one piece, was discarded
\* between two extracted frames.
C7_Witness ==
    /\ CodecDone /\ host.scn = "garbage" /\ host.feed = "chunk"
    /\ host.k = MaxGarbage
    /\ Len(ghost.got) = 2
    /\ Len(ghost.log) = MaxGarbage

\* C8 as stated: a complete DataFrame with one checksum byte changed or a wrong
\* tail is rejected, the first discard is of 2 bytes, and the valid frame that
\* follows it is extracted.
C8_FollowingFrameExtracted ==
    (CodecDone /\ host.scn = "corrupt") =>
        /\ ghost.got = <<host.frames[2]>>
        /\ ghost.log # <<>>
        /\ ghost.log[1] = ResyncSkip

(***************************************************************************)
(* Properties of the download session, checked under Spec.                 *)
(***************************************************************************)
\* The i-th port call of the last handler is the end of the handling of an
\* accepted DataFrame with remaining == 0.
LastFrameHandled(i) ==
    /\ trace[i].op = "handled"
    /\ trace[i].ok
    /\ trace[i].addr = 0

\* C2 as stated: the bootloader never jumps to the application while the most
\* recent download session (erase, DataFrames, FinishFrame) has not completed.
C2_NoJumpIntoOpenSession == (mode = "appentry") => ghost.session # "open"

\* C9: when the handling of an accepted DataFrame with remaining == 0 ends,
\* the state is WAIT_FINISH, download_active is clear and the writer holds no
\* carry; while the bootloader then waits for the FinishFrame the application
\* region holds every payload byte of the session, padded with FF.
C9_LastFrameEntersWaitFinish ==
    /\ \A i \in 1..Len(trace) :
           LastFrameHandled(i) =>
               /\ trace[i].state = "WAIT_FINISH"
               /\ ~trace[i].active
               /\ trace[i].carry = 0
               /\ trace[i].cursor % 4 = 0
    /\ (mode = "boot" /\ ctx.state = "WAIT_FINISH") =>
           /\ ~ctx.download_active
           /\ ctx.stream_cache = <<>>
           /\ ctx.current_addr = BOOT_APP_START_ADDR + RoundUp4(Len(ghost.image))
           /\ flashApp = Flashed(ghost.image)

\* C9 witness: a second DataFrame, with remaining == 0 and a payload that is
\* not a whole number of words, was accepted in state RECEIVING and left the
\* bootloader in WAIT_FINISH.
C9_Witness ==
    /\ mode = "boot"
    /\ ctx.state = "WAIT_FINISH"
    /\ ghost.image = VectorBytes \o <<9, 9, 9>>
    /\ \E i \in 1..Len(trace) : LastFrameHandled(i) /\ trace[i].data = <<9, 9, 9>>
    /\ \E i \in 1..Len(trace) : trace[i].op = "write" /\ trace[i].state = "RECEIVING"

\* C10 as stated: once the handling of a DataFrame has ended in WAIT_FINISH, a
\* DataFrame behind it in the cache causes no erase, no flash write and no
\* Ack, and the state stays WAIT_FINISH.
C10_DataFrameIgnoredInWaitFinish ==
    \A i \in 1..Len(trace) : \A j \in 1..Len(trace) :
        (i < j /\ trace[i].op = "handled" /\ trace[i].ok /\ trace[i].state = "WAIT_FINISH") =>
            /\ trace[j].op \notin {"erase", "write", "uart", "handled"}
            /\ trace[j].state = "WAIT_FINISH"

\* A poll of the bootloader, in a state other than WAIT_FINISH and with an
\* empty cache, that read one whole FinishFrame from the ring buffer.
PollReadsFinishFrameOutsideWaitFinish ==
    /\ mode = "boot"
    /\ mode' = "boot"
    /\ ctx.initialized
    /\ ctx.state \in {"IDLE", "RECEIVING"}
    /\ ctx.rx_cache = <<>>
    /\ uartQueue = EncodeFinishFrame(V2, D2)
    /\ uartQueue' = <<>>

\* C11 as stated: a well-formed FinishFrame read in Idle or Receiving abandons
\* the session (state Idle, no download active, cursor at the region start,
\* empty carry) and leaves the flag region as it was.
C11_FinishFrameOutsideWaitFinishResets ==
    [][PollReadsFinishFrameOutsideWaitFinish =>
           /\ ctx'.state = "IDLE"
           /\ ~ctx'.download_active
           /\ ctx'.current_addr = BOOT_APP_START_ADDR
           /\ ctx'.stream_cache = <<>>
           /\ flashFlag' = flashFlag]_vars

\* The i-th port call of the last handler is the Ack.
IsAck(i) == i >= 1 /\ i <= Len(trace) /\ trace[i].op = "uart" /\ trace[i].data = g_boot_ack

\* C13 as stated: the handling of an accepted DataFrame ends with an Ack when
\* remaining # 0 and without one when remaining == 0.
C13_NoAckAfterLastFrame ==
    \A i \in 1..Len(trace) :
        (trace[i].op = "handled" /\ trace[i].ok) => (IsAck(i - 1) <=> trace[i].addr # 0)

\* C13 amended: the handling of every accepted DataFrame, the one with
\* remaining == 0 included, ends with one Ack, sent after its flash writes; a
\* DataFrame that is not accepted gets none, and a poll that handled
\* DataFrames sent no other Ack.
C13_AckAfterEveryAcceptedFrame ==
    /\ \A i \in 1..Len(trace) :
           trace[i].op = "handled" =>
               /\ trace[i].ok <=> IsAck(i - 1)
               /\ trace[i].ok => ~IsAck(i - 2)
    /\ (\E j \in 1..Len(trace) : trace[j].op = "handled") =>
           \A i \in 1..Len(trace) :
               trace[i].op = "uart" =>
                   /\ IsAck(i)
                   /\ i < Len(trace)
                   /\ trace[i + 1].op = "handled"
                   /\ trace[i + 1].ok

\* C13 witness: after a DataFrame with remaining # 0, the DataFrame with
\* remaining == 0 and 3 payload bytes was written (one padded word) and then
\* acknowledged; the bootloader waits for the FinishFrame.
C13_Witness ==
    /\ mode = "boot"
    /\ ctx.state = "WAIT_FINISH"
    /\ ghost.image = VectorBytes \o <<9, 9, 9>>
    /\ Len(trace) = 3
    /\ trace[1].op = "write" /\ trace[1].ok
    /\ IsAck(2)
    /\ LastFrameHandled(3)

\* A poll of the bootloader in WAIT_FINISH whose cache, with the bytes it
\* reads, is exactly one FinishFrame (version 2, date 0x07E90202), and which
\* made port calls.
PollHandlesFinishFrame ==
    /\ mode = "boot"
    /\ ctx.initialized
    /\ ctx.state = "WAIT_FINISH"
    /\ uartQueue # <<>>
    /\ ctx.rx_cache \o uartQueue = EncodeFinishFrame(V2, D2)
    /\ trace' # <<>>

\* The port calls of a flag-region rewrite with (flag, version, date), all
\* successful, at the head of tr.
RewriteCalls(tr, flag, version, date) ==
    /\ Len(tr) >= 4
    /\ tr[1].op = "erase" /\ tr[1].addr = BOOT_FLAG_REGION_ADDR /\ tr[1].ok
    /\ tr[2].op = "write" /\ tr[2].addr = BOOT_FLAG_ADDR /\ tr[2].data = LE4(flag) /\ tr[2].ok
    /\ tr[3].op = "write" /\ tr[3].addr = BOOT_VERSION_ADDR /\ tr[3].data = LE4(version) /\ tr[3].ok
    /\ tr[4].op = "write" /\ tr[4].addr = BOOT_DATE_ADDR /\ tr[4].data = LE4(date) /\ tr[4].ok

\* The calls of a successful FinishFrame handling: rewrite, Ack, reset.
FinishCalls(tr) ==
    /\ Len(tr) = 6
    /\ RewriteCalls(tr, BOOT_FLAG_APP, V2, D2)
    /\ tr[5].op = "uart" /\ tr[5].data = g_boot_ack
    /\ tr[6].op = "reset"

\* C12: the handling of a FinishFrame in WAIT_FINISH rewrites the flag region
\* with flag APP and the frame's version and date (big-endian in the frame),
\* then sends one Ack, then issues the system reset; there is no Ack unless
\* the rewrite succeeded and no reset unless the Ack was sent; when no flash
\* operation fails all six calls are made and the flag region holds
\* (APP, version, date).
C12_FinishFrameWritesFlagThenAckThenReset ==
    [][PollHandlesFinishFrame =>
           /\ (\E i \in 1..Len(trace') : trace'[i].op \in {"uart", "reset"}) =>
                  FinishCalls(trace')
           /\ (\A i \in 1..Len(trace') : trace'[i].ok) =>
                  /\ FinishCalls(trace')
                  /\ flashFlag' = FlagRegion(BOOT_FLAG_APP, V2, D2)
                  /\ mode' = "reset"]_vars

\* C12 witness: the reset handler is about to run after a FinishFrame was
\* handled in WAIT_FINISH: rewrite, Ack, reset, and the flag region holds
\* (APP, 2, 0x07E90202).
C12_Witness ==
    /\ mode = "reset"
    /\ FinishCalls(trace)
    /\ trace[6].state = "WAIT_FINISH"
    /\ flashFlag = FlagRegion(BOOT_FLAG_APP, V2, D2)

\* The flash operations of the last handler on the flag region, in order.
IsFlagOp(e) ==
    \/ e.op = "erase" /\ e.addr = BOOT_FLAG_REGION_ADDR
    \/ e.op = "write" /\ InFlag(e.addr)

FlagOps == SelectSeq(trace, IsFlagOp)

\* ops is one rewrite: an erase, then the words at +0, +4, +8 in this order,
\* each written once, each only after the operation before it succeeded,
\* all of them when nothing fails.
IsOneRewrite(ops) ==
    /\ ops[1].op = "erase"
    /\ Len(ops) <= 4
    /\ \A k \in 2..Len(ops) :
           /\ ops[k].op = "write"
           /\ ops[k].addr = BOOT_FLAG_REGION_ADDR + 4 * (k - 2)
           /\ Len(ops[k].data) = 4
           /\ ops[k - 1].ok
    /\ (\A k \in 1..Len(ops) : ops[k].ok) => Len(ops) = 4

\* C17 as stated: whenever a handler of either engine touched the flag
\* region it made one rewrite: one erase, then flag, version, date, each word
\* once, stopping at the first failure, after which it does not go on to the
\* reset.
C17_FlagRewriteIsEraseThenThreeWords ==
    FlagOps # <<>> =>
        /\ IsOneRewrite(FlagOps)
        /\ (\E k \in 1..Len(FlagOps) : ~FlagOps[k].ok) => ~Called("reset")

\* C18: when the flag-region rewrite of a FinishFrame handled in WAIT_FINISH
\* fails (the erase or one of the word writes), the poll sends no Ack and
\* issues no reset; the bootloader stays resident, initialized, with its
\* context re-initialised for a new attempt.
C18_FailedFlagWriteStaysResident ==
    [][(PollHandlesFinishFrame /\ \E i \in 1..Len(trace') : ~trace'[i].ok) =>
           /\ \A i \in 1..Len(trace') : trace'[i].op \notin {"uart", "reset"}
           /\ mode' = "boot"
           /\ ctx' = ReadyCtx]_vars

\* C18 witness: the bootloader is resident in Idle after a poll in
\* WAIT_FINISH whose flag-region rewrite failed at a word write: the region
\* was erased, no Ack and no reset followed.
C18_Witness ==
    /\ mode = "boot"
    /\ ctx = ReadyCtx
    /\ Len(FlagOps) >= 2
    /\ Len(FlagOps) = Len(trace)
    /\ trace[1].state = "WAIT_FINISH"
    /\ ~trace[Len(trace)].ok

(***************************************************************************)
(* Properties of the application engine, checked under Spec.               *)
(***************************************************************************)
\* A run of the application task, with an empty cache, that read exactly the
\* bytes cmd from the ring buffer.
AppPollReads(cmd) ==
    /\ mode = "app"
    /\ actx.initialized
    /\ actx.rx_cache = <<>>
    /\ uartQueue = cmd
    /\ uartQueue' = <<>>
    /\ host' = host

\* tr holds no failed flash operation.
AllOk(tr) == \A i \in 1..Len(tr) : tr[i].ok

\* C22: StartFlash with the cached version is a no-op: no port call, flag
\* region and context as before.  StartFlash with another version rewrites
\* the flag region and, when the rewrite succeeded, leaves it holding
\* (BOOTLOADER, version, date) and ends with the system reset, issued after
\* the last flash write; when the rewrite failed there is no reset.
C22_StartFlash ==
    [][\A v \in {V1, V2} : \A d \in {D1, D2} :
           AppPollReads(EncodeStartFlash(v, d)) =>
               IF v = actx.app_version
               THEN /\ trace' = <<>>
                    /\ flashFlag' = flashFlag
                    /\ mode' = "app"
                    /\ actx' = actx
               ELSE /\ \E i \in 1..Len(trace') :
                           trace'[i].op = "erase" /\ trace'[i].addr = BOOT_FLAG_REGION_ADDR
                    /\ AllOk(trace') =>
                           /\ flashFlag' = FlagRegion(BOOT_FLAG_BOOTLOADER, v, d)
                           /\ trace'[Len(trace')].op = "reset"
                           /\ mode' = "reset"
                    /\ ~AllOk(trace') =>
                           /\ \A i \in 1..Len(trace') : trace'[i].op # "reset"
                           /\ mode' = "app"]_vars

\* C22 witness: StartFlash with version 2 reached the application that ran
\* version 1; the flag region holds (BOOTLOADER, 2, 0x07E90202) and the boot
\* after the reset stayed in the bootloader although the image is valid.
C22_Witness ==
    /\ mode = "boot"
    /\ flashFlag = FlagRegion(BOOT_FLAG_BOOTLOADER, V2, D2)
    /\ flashApp = ValidImage
    /\ ctx.boot_flag = BOOT_FLAG_BOOTLOADER
    /\ ctx.app_version = V2
    /\ ~Called("jump")

\* "version:1\r\n", "version:2\r\n", "2025-01-01\r\n", "2025-02-02\r\n"
TextVersion1 == <<118, 101, 114, 115, 105, 111, 110, 58, 49, 13, 10>>
TextVersion2 == <<118, 101, 114, 115, 105, 111, 110, 58, 50, 13, 10>>
TextDate1 == <<50, 48, 50, 53, 45, 48, 49, 45, 48, 49, 13, 10>>
TextDate2 == <<50, 48, 50, 53, 45, 48, 50, 45, 48, 50, 13, 10>>

\* C23: a run of the application task that reads QueryVersion or QueryDate
\* makes one port call, the text reply formatted from the cached version or
\* date; it makes no flash call, sends no Ack, issues no reset and leaves
\* flash and the cached flag, version and date as they were.
C23_QueriesAnswerFromCache ==
    [][(AppPollReads(QueryVersionCmd) \/ AppPollReads(QueryDateCmd)) =>
           /\ Len(trace') = 1
           /\ trace'[1].op = "uart"
           /\ trace'[1].data # g_boot_ack
           /\ flashFlag' = flashFlag
           /\ flashApp' = flashApp
           /\ actx' = actx
           /\ mode' = "app"
           /\ (AppPollReads(QueryVersionCmd) /\ actx.app_version = V1) =>
                  trace'[1].data = TextVersion1
           /\ (AppPollReads(QueryVersionCmd) /\ actx.app_version = V2) =>
                  trace'[1].data = TextVersion2
           /\ (AppPollReads(QueryDateCmd) /\ actx.update_date = D1) =>
                  trace'[1].data = TextDate1
           /\ (AppPollReads(QueryDateCmd) /\ actx.update_date = D2) =>
                  trace'[1].data = TextDate2]_vars

\* C23 witness: QueryVersion was answered "version:1" from the cache after a
\* StartFlash whose flag-region rewrite failed had left the flag region
\* without that version.
C23_Witness ==
    /\ mode = "app"
    /\ actx.app_version = V1
    /\ WordLE(flashFlag, 5) # V1
    /\ Len(trace) = 1
    /\ trace[1].op = "uart"
    /\ trace[1].data = TextVersion1

\* C36: a run of the application task that sends the Ack for a StartFlash
\* leaves the flag region holding (BOOTLOADER, version, date) of the command
\* and ends in the system reset.
C36_AckMeansBootloaderEntered ==
    [][\A v \in {V1, V2} : \A d \in {D1, D2} :
           (/\ AppPollReads(EncodeStartFlash(v, d))
            /\ \E i \in 1..Len(trace') :
                   trace'[i].op = "uart" /\ trace'[i].data = g_boot_ack) =>
               /\ flashFlag' = FlagRegion(BOOT_FLAG_BOOTLOADER, v, d)
               /\ mode' = "reset"]_vars

(***************************************************************************)
(* Properties of the bootloader engines under the other hosts: SpecLib,    *)
(* SpecProvision, SpecBurst and Spec.                                      *)
(***************************************************************************)
\* C24: the bootloader changes the flag region only in a poll that found it
\* in state WAIT_FINISH and handled no DataFrame, that is, only while
\* handling a FinishFrame after the last DataFrame; never in the poll that
\* handles the last DataFrame.
C24_FlagWrittenOnlyOnFinishFrame ==
    [][(mode = "boot" /\ flashFlag' # flashFlag) =>
           /\ ctx.state = "WAIT_FINISH"
           /\ \A i \in 1..Len(trace') : trace'[i].op # "handled"]_vars

\* C25: a device whose flag region was erased at first power-on enters the
\* application only after a download session has been completed by a
\* FinishFrame that the bootloader accepted (flag region rewritten, Ack,
\* reset).
C25_NoJumpBeforeAcceptedFinishFrame ==
    (mode \in {"appentry", "app"}) => host.provisioned

\* A pass of the bootloader main loop that took bytes from the ring buffer.
BootPollStep == mode = "boot" /\ wire' = wire /\ uartQueue' # uartQueue

\* The state changes the three-state machine allows between two port calls:
\* none, Idle -> Receiving (-> WaitFinish), Receiving -> WaitFinish.
StateStep(a, b) ==
    \/ a = b
    \/ a = "IDLE" /\ b \in {"RECEIVING", "WAIT_FINISH"}
    \/ a = "RECEIVING" /\ b = "WAIT_FINISH"

\* C26: the states seen at the port calls of a pass of the main loop, between
\* the state before the pass and the state after it, change only along
\* Idle -> Receiving -> WaitFinish; the state after the pass is Idle again
\* only if the pass ended in an error (context re-initialised) or in a reset.
C26_StateOnlyMovesForward ==
    [][(BootPollStep /\ trace' # <<>>) =>
           /\ StateStep(ctx.state, trace'[1].state)
           /\ \A i \in 1..(Len(trace') - 1) : StateStep(trace'[i].state, trace'[i + 1].state)
           /\ \/ mode' = "reset"
              \/ StateStep(trace'[Len(trace')].state, ctx'.state)
              \/ ctx'.state = "IDLE" /\ ~AllOk(trace')]_vars

\* The last port call of the last pass is the end of a failed DataFrame handler.
FrameFailed ==
    /\ mode = "boot"
    /\ trace # <<>>
    /\ trace[Len(trace)].op = "handled"
    /\ ~trace[Len(trace)].ok

\* The port calls made for the failed frame: those after the previous frame's end.
FailedFrameCalls ==
    {i \in 1..(Len(trace) - 1) : \A j \in i..(Len(trace) - 1) : trace[j].op # "handled"}

\* C27: when the handling of a DataFrame has failed, no Ack was sent for it
\* and the context is re-initialised (Idle, no download active, cursor at the
\* region start, carry and receive cache empty, initialized kept); the
\* failure was a flash operation that returned an error or the range check,
\* and after a failed range check no flash write was made for the frame.
C27_FailedDataFrame ==
    FrameFailed =>
        /\ \A i \in FailedFrameCalls : ~IsAck(i)
        /\ ctx.state = "IDLE"
        /\ ~ctx.download_active
        /\ ctx.current_addr = BOOT_APP_START_ADDR
        /\ ctx.stream_cache = <<>>
        /\ ctx.rx_cache = <<>>
        /\ ctx.initialized
        /\ \E i \in FailedFrameCalls : ~trace[i].ok
        /\ (\E i \in FailedFrameCalls : trace[i].op = "overflow") =>
               (\A i \in FailedFrameCalls : trace[i].op # "write")

\* C27 witness: a second 8-byte frame failed the range check of the
\* 12-byte region; the first frame's bytes are all the region holds.
C27_Witness ==
    /\ FrameFailed
    /\ \E i \in FailedFrameCalls : trace[i].op = "overflow"
    /\ trace[Len(trace)].data = VectorBytes
    /\ flashApp = Flashed(VectorBytes)
    /\ ctx.state = "IDLE"

\* C29: after a pass of the main loop in which the handling of a DataFrame
\* failed, the context holds its initial values (Idle, no download active,
\* cursor at the region start, carry and receive cache empty) with
\* initialized still true, and the next pass that handles a DataFrame begins
\* with the erase of the application region.
C29_AbandonedDownloadResetsContext ==
    [][FrameFailed =>
           /\ ctx.state = "IDLE"
           /\ ~ctx.download_active
           /\ ctx.current_addr = BOOT_APP_START_ADDR
           /\ ctx.stream_cache = <<>>
           /\ ctx.rx_cache = <<>>
           /\ ctx.initialized
           /\ (BootPollStep /\ \E i \in 1..Len(trace') : trace'[i].op = "handled") =>
                  /\ trace'[1].op = "erase"
                  /\ trace'[1].addr = BOOT_APP_START_ADDR]_vars

\* The cache the extractor of a pass starts from: what was kept plus what
\* the pass reads, long enough to be examined, a header pair with a declared
\* length above the maximum at its head.
PassCache == ctx.rx_cache \o uartQueue

OversizedAtHead ==
    /\ Len(PassCache) >= BOOT_FRAME_FIXED_SIZE
    /\ PassCache[1] = BOOT_FRAME_HEADER0
    /\ PassCache[2] = BOOT_FRAME_HEADER1
    /\ PassCache[6] * 256 + PassCache[7] > BOOT_PAYLOAD_MAX_SIZE

\* C30: a pass of the main loop (not in WAIT_FINISH) whose cache begins with
\* an oversized header.  With 11 bytes in the cache it discards exactly the
\* 2 header bytes, makes no port call and leaves flash and the rest of the
\* context as they were; with a whole DataFrame behind the 7 header bytes
\* the same pass goes on to extract and handle that frame.
C30_OversizedHeaderIsSkipped ==
    [][(BootPollStep /\ uartQueue' = <<>> /\ ctx.state # "WAIT_FINISH" /\ OversizedAtHead) =>
           /\ Len(PassCache) = BOOT_FRAME_FIXED_SIZE =>
                  /\ ctx' = [ctx EXCEPT !.rx_cache = Drop(PassCache, 2)]
                  /\ trace' = <<>>
                  /\ flashApp' = flashApp
                  /\ flashFlag' = flashFlag
                  /\ mode' = "boot"
           /\ \A f \in {Frame(0, <<>>), Frame(4, VectorBytes), Frame(0, <<9, 9, 9>>)} :
                  PassCache = OversizedHeader \o EncodeFrame(f) =>
                      /\ trace' # <<>>
                      /\ trace'[Len(trace')].op = "handled"
                      /\ trace'[Len(trace')].addr = f.remaining
                      /\ trace'[Len(trace')].data = f.payload
                      /\ AllOk(trace') => ctx'.rx_cache = <<>>]_vars

\* C30 witness: in the middle of a session (one frame written, state
\* Receiving) an oversized header reached the head of an 11-byte cache and
\* its 2 header bytes were discarded.
C30_Witness ==
    /\ mode = "boot"
    /\ ctx.state = "RECEIVING"
    /\ ctx.download_active
    /\ ctx.current_addr = BOOT_APP_START_ADDR + 8
    /\ ctx.rx_cache = Drop(OversizedHeader, 2) \o Take(OversizedHeader, 4)
    /\ trace = <<>>

\* [a, a + n) and [b, b + m) have no address in common.
Disjoint(a, n, b, m) == a + n <= b \/ b + m <= a

\* The addresses a flash call of the log covers: an erase covers the region
\* it names, a write its data.
OpSpan(e) ==
    IF e.op = "write" THEN Len(e.data)
    ELSE IF e.addr = BOOT_APP_START_ADDR THEN STM32_BOOT_APP_MAX_SIZE
    ELSE BOOT_FLAG_REGION_SIZE

FlashCalls(tr) == {i \in 1..Len(tr) : tr[i].op \in {"erase", "write"}}

RunningCache == IF mode = "boot" THEN ctx.rx_cache ELSE actx.rx_cache

CacheCapacity == IF mode = "boot" THEN BOOT_PACKET_MAX_SIZE ELSE AppCacheSize

\* The number of bytes a pass reads: what the ring buffer holds, at most
\* the free space of the cache.
ReadCount == Min(Len(uartQueue), CacheCapacity - Len(RunningCache))

\* A pass of either engine's main loop that returned (no system reset).
RunReturned ==
    /\ mode \in {"boot", "app"}
    /\ mode' = mode
    /\ wire' = wire
    /\ host' = host

FlagLeftErased == host.cut # "none" /\ flashFlag = ErasedFlag

\* An uninterrupted pass of the bootloader, resident after that boot, that
\* found its cache empty and read exactly the bytes frame.
CutPollReads(frame) ==
    /\ mode = "boot"
    /\ FlagLeftErased
    /\ ctx.rx_cache = <<>>
    /\ uartQueue = frame
    /\ wire' = wire
    /\ host' = host
    /\ uartQueue' # uartQueue

C39_VersionAndDateRoundTrip ==
    [][\A v \in {V1, V2} : \A d \in {D1, D2} :
           /\ (/\ BootPollStep /\ host' = host
               /\ ctx.state = "WAIT_FINISH" /\ ctx.rx_cache = <<>>
               /\ uartQueue = EncodeFinishFrame(v, d)
               /\ mode' = "reset") =>
                  flashFlag' = FlagRegion(BOOT_FLAG_APP, v, d)
           /\ (/\ mode = "appentry" /\ mode' = "app"
               /\ flashFlag = FlagRegion(BOOT_FLAG_APP, v, d)) =>
                  /\ actx'.boot_flag = BOOT_FLAG_APP
                  /\ actx'.app_version = v
                  /\ actx'.update_date = d
           /\ (/\ AppPollReads(QueryVersionCmd)
               /\ flashFlag = FlagRegion(BOOT_FLAG_APP, v, d)) =>
                  /\ Len(trace') = 1
                  /\ trace'[1].data = (IF v = V1 THEN TextVersion1 ELSE TextVersion2)
           /\ (/\ \E dd \in {D1, D2} : AppPollReads(EncodeStartFlash(v, dd))
               /\ flashFlag = FlagRegion(BOOT_FLAG_APP, v, d)) =>
                  /\ trace' = <<>>
                  /\ flashFlag' = flashFlag
                  /\ mode' = "app"
           /\ (/\ AppPollReads(EncodeStartFlash(v, d))
               /\ mode' = "reset") =>
                  flashFlag' = FlagRegion(BOOT_FLAG_BOOTLOADER, v, d)
           /\ (/\ mode = "reset" /\ mode' # "reset"
               /\ flashFlag = FlagRegion(BOOT_FLAG_BOOTLOADER, v, d)) =>
                  /\ mode' = "boot"
                  /\ ctx'.boot_flag = BOOT_FLAG_BOOTLOADER
                  /\ ctx'.app_version = v
                  /\ ctx'.update_date = d]_vars

\* C39 witness: a download that ended with FinishFrame{2, 0x07E90202} was
\* followed by the reset and the jump, and the application has answered
\* QueryVersion with "version:2".
C39_Witness ==
    /\ mode = "app"
    /\ ghost.session = "complete"
    /\ flashFlag = FlagRegion(BOOT_FLAG_APP, V2, D2)
    /\ actx.app_version = V2
    /\ actx.update_date = D2
    /\ Len(trace) = 1
    /\ trace[1].data = TextVersion2

(***************************************************************************)
(* Properties of the data phase behind foreign bytes, checked under        *)
(* SpecPrefix.                                                             *)
(***************************************************************************)
\* The cache the parser of the coming pass will see.
PolledCache == bootloader_poll_uart(Mach(0)).ctx.rx_cache

\* That cache ends with the whole of the host's DataFrame.
FrameInCache ==
    LET frame == EncodeDataFrame(0, host.payload)
    IN  /\ Len(PolledCache) >= Len(frame)
        /\ Drop(PolledCache, Len(PolledCache) - Len(frame)) = frame

\* C35: a pass of the bootloader in Idle or Receiving whose cache holds,
\* after its poll, the whole of a valid DataFrame extracts, handles and
\* acknowledges that frame, whatever bytes precede it in the cache.
C35_CompleteFrameIsExtracted ==
    [][(BootPollStep /\ host.stage = "sent" /\ ctx.state # "WAIT_FINISH" /\ FrameInCache) =>
           /\ \E i \in 1..Len(trace') :
                  /\ trace'[i].op = "handled" /\ trace'[i].ok
                  /\ trace'[i].data = host.payload
           /\ \E i \in 1..Len(trace') :
                  trace'[i].op = "uart" /\ trace'[i].data = g_boot_ack]_vars

(***************************************************************************)
(* Properties of the scanning loops, checked under Spec.                   *)
(***************************************************************************)
\* The caches an iteration of a scanning loop of the coming pass can meet:
\* the polled cache with some prefix consumed.
Tails(cache) == {Drop(cache, k) : k \in 0..Len(cache)}

AppPolledCache == app_poll_uart(Mach(0)).actx.rx_cache

Handled(tr) == {i \in 1..Len(tr) : tr[i].op = "handled"}

\* C38: every iteration of a scanning loop that does not leave the loop
\* consumes at least one byte of the cache, in the DataFrame extractor, the
\* FinishFrame extractor and the command parser of the application, whatever
\* the cache holds; an extracted DataFrame takes at least 11 bytes out of
\* the cache, so a pass handles at most one frame per 11 bytes it consumed.
C38_LoopsConsume ==
    /\ [](/\ mode = "boot" =>
                \A c \in Tails(PolledCache) :
                    /\ ExtractStep(c).act = "skip" => Len(ExtractStep(c).cache) < Len(c)
                    /\ ExtractStep(c).act = "frame" =>
                           Len(c) - Len(ExtractStep(c).cache) >= BOOT_FRAME_FIXED_SIZE
                    /\ FinishStep(c).act = "skip" => Len(FinishStep(c).cache) < Len(c)
                    /\ Len(bootloader_try_extract_frame(c).log) <= Len(c)
          /\ mode = "app" =>
                \A c \in Tails(AppPolledCache) :
                    AppStep(c).act = "skip" => Len(AppStep(c).cache) < Len(c))
    /\ [][BootPollStep =>
              BOOT_FRAME_FIXED_SIZE * Cardinality(Handled(trace'))
                  <= Len(PolledCache) - Len(ctx'.rx_cache)]_vars

\* C38 witness: the pass the bootloader is about to make discards bytes in
\* front of a header and then extracts a DataFrame.
C38_Witness ==
    /\ mode = "boot"
    /\ ctx.state # "WAIT_FINISH"
    /\ ExtractStep(PolledCache).act = "skip"
    /\ bootloader_try_extract_frame(PolledCache).found
    /\ Len(bootloader_try_extract_frame(PolledCache).log) > 2

(***************************************************************************)
(* Properties of the fixed-length frames, checked under SpecSplit.         *)
(***************************************************************************)
\* What the frame of the scenario does when it is recognised.
FinishFrameTookEffect == flashFlag = FlagRegion(BOOT_FLAG_APP, V2, D2)

StartFlashTookEffect == flashFlag = FlagRegion(BOOT_FLAG_BOOTLOADER, V2, D2) /\ mode # "app"

QueryAnswered(text) == mode = "app" /\ Len(trace) = 1 /\ trace[1].data = text

\* C31: once all 14 (or 6) bytes of a fixed-length frame have been received
\* and polled, the frame has been recognised with its version and date,
\* wherever the frame was split and whether or not a poll ran on the first
\* piece alone.
C31_SplitFrameIsRecognised ==
    SplitDone =>
        /\ host.kind = "finish" => FinishFrameTookEffect
        /\ host.kind = "start" => StartFlashTookEffect
        /\ host.kind = "qver" => QueryAnswered(TextVersion1)
        /\ host.kind = "qdate" => QueryAnswered(TextDate1)

(***************************************************************************)
(* Properties of the flash stream writer, checked under SpecWriter.        *)
(***************************************************************************)
ImageLen == SumLens(host.lens, 1)

\* C14: when every chunk of a download of L bytes has been accepted and the
\* last one flushed, after one erase, the flash writes of the download were
\* at consecutive addresses from the region start, ceil(L/4) words in all;
\* their bytes, cut to L, are the chunks in arrival order and the bytes
\* after them are FF; the cursor advanced by 4 * ceil(L/4) and the region
\* reads back as the image padded with FF.
C14_StreamWriterWritesImage ==
    WriterDone =>
        /\ ghost.erases = 1
        /\ ghost.contiguous
        /\ Len(ghost.bytes) = 4 * ((ImageLen + 3) \div 4)
        /\ Take(ghost.bytes, ImageLen) = Concat(host.chunks)
        /\ Drop(ghost.bytes, ImageLen) = Rep(255, Len(ghost.bytes) - ImageLen)
        /\ ctx.current_addr = BOOT_APP_START_ADDR + Len(ghost.bytes)
        /\ ctx.stream_cache = <<>>
        /\ flashApp = Flashed(Concat(host.chunks))

\* C14 witness: chunks AA x5 then BB x3 were accepted: the words written are
\* AA AA AA AA and AA BB BB BB, the second by the poll of the second chunk.
C14_Witness ==
    /\ WriterDone
    /\ host.chunks = <<Rep(170, 5), Rep(187, 3)>>
    /\ ghost.bytes = Rep(170, 5) \o Rep(187, 3)
    /\ ctx.current_addr = BOOT_APP_START_ADDR + 8
    /\ trace[1].op = "write"
    /\ trace[1].data = <<170, 187, 187, 187>>

\* A pass of the main loop that took one DataFrame from the ring buffer.
WriterPollsFrame == mode = "boot" /\ uartQueue # <<>> /\ uartQueue' = <<>>

\* C28: a DataFrame handled while a download is active causes no erase; a
\* DataFrame handled while none is active starts with the one erase of the
\* application region, and the call after a successful erase finds the
\* cursor at the region start; every flash write of the stream writer is
\* made while the download is active, that is, after the erase.
C28_EraseOncePerSession ==
    [][WriterPollsFrame =>
           /\ ctx.download_active => \A i \in 1..Len(trace') : trace'[i].op # "erase"
           /\ ~ctx.download_active =>
                  /\ trace'[1].op = "erase"
                  /\ trace'[1].addr = BOOT_APP_START_ADDR
                  /\ \A i \in 2..Len(trace') : trace'[i].op # "erase"
                  /\ trace'[1].ok => trace'[2].cursor = BOOT_APP_START_ADDR
           /\ \A i \in 1..Len(trace') : trace'[i].op = "write" => trace'[i].active]_vars

\* C28 witness: a download of three chunks was accepted with one erase, and
\* the poll of its last chunk wrote to flash without erasing.
C28_Witness ==
    /\ WriterDone
    /\ Len(host.chunks) = 3
    /\ ghost.accepted = 3
    /\ ghost.erases = 1
    /\ \E i \in 1..Len(trace) : trace[i].op = "write"
    /\ \A i \in 1..Len(trace) : trace[i].op # "erase"

\* C15: between polls the cursor is the region start plus a multiple of 4
\* and the carry holds at most 3 bytes; every flash write of the writer is
\* at the cursor, which is 4-byte aligned, with a length that is a non-zero
\* multiple of 4; the cursor moves only on a successful write, forward by
\* the length written.
C15_CursorAlignedCarryShort ==
    /\ ctx.current_addr >= BOOT_APP_START_ADDR
    /\ (ctx.current_addr - BOOT_APP_START_ADDR) % 4 = 0
    /\ Len(ctx.stream_cache) <= 3
    /\ \A i \in 1..Len(trace) :
           trace[i].op = "write" =>
               /\ trace[i].addr = trace[i].cursor
               /\ trace[i].addr % 4 = 0
               /\ Len(trace[i].data) > 0
               /\ Len(trace[i].data) % 4 = 0
               /\ i < Len(trace)
               /\ trace[i + 1].cursor =
                      trace[i].cursor + (IF trace[i].ok THEN Len(trace[i].data) ELSE 0)
    /\ \A i \in 1..(Len(trace) - 1) :
           trace[i].op # "write" => trace[i + 1].cursor = trace[i].cursor
    /\ \A i \in 1..Len(trace) :
           (trace[i].op = "handled" /\ trace[i].ok) =>
               /\ trace[i].carry <= 3
               /\ i = Len(trace) => ctx.current_addr = trace[i].cursor

\* C15 witness: a chunk of 4 bytes arrived on a carry of 3: the poll wrote one
\* word at the region start, moved the cursor by 4 and kept 3 bytes.
C15_Witness ==
    /\ Len(ctx.stream_cache) = 3
    /\ ctx.current_addr = BOOT_APP_START_ADDR + 4
    /\ Len(trace) = 3
    /\ trace[1].op = "write" /\ trace[1].ok /\ trace[1].carry = 4
    /\ trace[1].cursor = BOOT_APP_START_ADDR
    /\ trace[2].cursor = BOOT_APP_START_ADDR + 4
    /\ trace[3].op = "handled" /\ trace[3].ok /\ trace[3].carry = 3

AppRegionEnd == BOOT_APP_START_ADDR + BOOT_APP_MAX_SIZE

\* C16: every flash write of a download lies within the application region,
\* the cursor never passes the region's end, and a chunk is turned away only
\* when the cursor plus carry and chunk, rounded up to whole words, would
\* pass the end.
C16_WritesStayInAppRegion ==
    /\ ctx.current_addr <= AppRegionEnd
    /\ \A i \in 1..Len(trace) :
           /\ trace[i].cursor <= AppRegionEnd
           /\ trace[i].op = "write" =>
                  /\ trace[i].addr >= BOOT_APP_START_ADDR
                  /\ trace[i].addr + Len(trace[i].data) <= AppRegionEnd
           /\ trace[i].op = "overflow" =>
                  trace[i].cursor + RoundUp4(trace[i].carry + Len(trace[i].data)) > AppRegionEnd

\* C16 witness: a download that fills the region to its last word was
\* accepted: the last write ended at the region's end, and so did the cursor.
C16_Witness ==
    /\ WriterDone
    /\ ctx.current_addr = AppRegionEnd
    /\ \E i \in 1..Len(trace) :
           /\ trace[i].op = "write"
           /\ trace[i].ok
           /\ trace[i].addr + Len(trace[i].data) = AppRegionEnd

(***************************************************************************)
(* Properties of the Ack handshake, checked under SpecArq.                 *)
(***************************************************************************)
\* C4 as stated: when every frame has been acknowledged, although frames or
\* Acks were lost or corrupted and frames were sent again, the application
\* region holds every frame's payload exactly once and in order.
C4_FlashedImageEqualsHostImage == ArqDone => flashApp = Flashed(HostImage(host.frames))

(***************************************************************************)
(* Properties of the upgrade flow, checked under SpecLive.                 *)
(***************************************************************************)
\* C3 as stated, in the form a finite run refutes: from a running application
\* with flag APP, StartFlash with a different version, then the DataFrames in
\* order and the FinishFrame, lead to the flag region (APP, version, date),
\* the Ack of the FinishFrame, a reset and the new image running if it is
\* valid, so the flow never comes to rest with the host still waiting for an
\* Ack.
C3_UpgradeNeverStalls == ~LiveAtRest

====
